---------------------------- MODULE Spec2Model ----------------------------
(***************************************************************************)
(* A model of the Discovery agent's process-based RPC bridge               *)
(* (call_mcp_tool in backend/agent/src/agent/graph.py and graph_new.py),   *)
(* of the four tool facades built on it, and of the data workers           *)
(* (mcp/denodo_mcp.py, mcp/denodo_mcp_mock.py).                            *)
(***************************************************************************)
EXTENDS Naturals, Sequences, FiniteSets, TLC

(***************************************************************************)
(* JSON values.  A Python value obtained from json.loads is a tagged       *)
(* record; a dict is a function from its keys to values.                   *)
(***************************************************************************)
Null == [t |-> "null"]
Num(n) == [t |-> "num", n |-> n]
Bool(b) == [t |-> "bool", b |-> b]
Str(s) == [t |-> "str", s |-> s]
List(items) == [t |-> "list", items |-> items]
Obj(m) == [t |-> "obj", m |-> m]
EmptyObj == [t |-> "obj", m |-> << >>]

\* json.dumps(j): the text that encodes j.
JsonDumps(j) == [t |-> "str", enc |-> j]
\* An f-string: a fixed prefix followed by the formatted value arg.
Fmt(prefix, arg) == [t |-> "str", fmt |-> prefix, arg |-> arg]
\* str(j) of a value that is not a string (its repr).
PyRepr(j) == [t |-> "str", repr |-> j]

\* The outcome of evaluating a Python expression: a value or a raised exception.
Ret(v) == [k |-> "ret", v |-> v]
Raise(e) == [k |-> "raise", e |-> e]

\* json.loads(x): the value a text encodes; JSONDecodeError for a text that
\* is no JSON document; TypeError for a value that is no text at all.
JsonLoads(x) ==
  IF x.t # "str" THEN Raise("TypeError")
  ELSE IF "enc" \in DOMAIN x THEN Ret(x.enc)
  ELSE Raise("JSONDecodeError")

\* Python's substring test on the plain strings the model uses: besides s
\* itself only the strings listed here contain s.
StrContains(x, s) ==
  /\ "s" \in DOMAIN x
  /\ \/ x.s = s
     \/ <<s, x.s>> \in {<<"error", "an error occurred">>}

\* `s in j` raises TypeError when j is None, a number or a bool.
PyInRaises(j) == j.t \in {"null", "num", "bool"}
\* `s in j` for a dict (key), a list (element) or a string (substring).
PyIn(s, j) ==
  CASE j.t = "obj" -> s \in DOMAIN j.m
    [] j.t = "list" -> \E i \in 1..Len(j.items) : j.items[i] = Str(s)
    [] j.t = "str" -> StrContains(j, s)
    [] OTHER -> FALSE
\* dict.get(k, d)
Get(j, k, d) == IF k \in DOMAIN j.m THEN j.m[k] ELSE d
\* len(j) == 0 for a list, a dict or a string.
PyEmpty(j) ==
  CASE j.t = "list" -> j.items = << >>
    [] j.t = "obj" -> DOMAIN j.m = {}
    [] j.t = "str" -> j = Str("")
    [] OTHER -> FALSE
\* Python truthiness: `not j`.
PyNot(j) ==
  CASE j.t = "null" -> TRUE
    [] j.t = "bool" -> ~j.b
    [] j.t = "num" -> j.n = 0
    [] OTHER -> PyEmpty(j)

\* The error mapping {"error": reason} that call_mcp_tool returns.
Err(reason) == Obj("error" :> reason)

(***************************************************************************)
(* Lines read from the worker's standard output.  readline() returns ''    *)
(* at end of file ("eof"), a blank line, informational text that does not  *)
(* begin with '{', a line that begins with '{' but is no JSON document, or *)
(* a JSON object (a JSON-RPC message).                                     *)
(***************************************************************************)
EofLine == [kind |-> "eof"]
BlankLine == [kind |-> "blank"]
TextLine == [kind |-> "text"]
BadJsonLine == [kind |-> "badjson"]
JsonLine(msg) == [kind |-> "json", msg |-> msg]

\* line.strip() is empty
IsBlank(l) == l.kind \in {"eof", "blank"}

\* resp.get("id") == 1 (in Python True == 1 as well)
IdIsOne(resp) ==
  LET id == Get(resp, "id", Null)
  IN  \/ id = Num(1)
      \/ id = Bool(TRUE)

\* The lines that survive the scan: non-blank, beginning with '{', parsed by
\* json.loads without error; in the order read.
Responses(ls) ==
  LET RECURSIVE Scan(_)
      Scan(i) == IF i > Len(ls) THEN << >>
                 ELSE IF ls[i].kind = "json" THEN <<ls[i].msg>> \o Scan(i + 1)
                 ELSE Scan(i + 1)
  IN  Scan(1)

\* A search that takes every response, whatever its id.
ToolResponseIdxAnyId(rs) == 1..Len(rs)

\* next(r for r in responses if r.get("id") == 1): the positions that match.
ToolResponseIdx(rs) == {i \in 1..Len(rs) : IdIsOne(rs[i])}
FirstOf(S) == CHOOSE i \in S : \A j \in S : i <= j

\* {"error": f"MCP error: {error.get('message', str(error))}"}
RemoteError(tr) ==
  LET error == tr.m["error"]
  IN  IF error.t # "obj" THEN Raise("AttributeError")
      ELSE Ret(Err(Fmt("MCP error: ", Get(error, "message", PyRepr(error)))))

\* An extraction that answers an empty payload for an empty content array.
ExtractPayloadLenient(rd) ==
  IF PyInRaises(rd) THEN Raise("TypeError")
  ELSE IF ~PyIn("content", rd) THEN Ret(Err(Str("MCP result missing content")))
  ELSE IF rd.t # "obj" THEN Raise("TypeError")
  ELSE LET content == rd.m["content"]
       IN  IF content.t # "list" THEN Raise("TypeError")
           ELSE IF content.items = << >> THEN Ret(Null)
           ELSE LET item == content.items[1]
                IN  IF item.t # "obj" THEN Raise("TypeError")
                    ELSE IF "text" \notin DOMAIN item.m THEN Raise("KeyError")
                    ELSE JsonLoads(item.m["text"])

\* result.content[0].text parsed as the tool's payload.
ExtractPayload(rd) ==
  IF PyInRaises(rd) THEN Raise("TypeError")
  ELSE IF ~PyIn("content", rd) THEN Ret(Err(Str("MCP result missing content")))
  ELSE IF rd.t # "obj" THEN Raise("TypeError")
  ELSE LET content == rd.m["content"]
       IN  IF content.t \in {"null", "num", "bool"} THEN Raise("TypeError")
           ELSE IF PyEmpty(content) THEN Ret(Err(Str("MCP result missing content")))
           ELSE IF content.t = "str" THEN Raise("TypeError")
           ELSE IF content.t = "obj" THEN Raise("KeyError")
           ELSE LET item == content.items[1]
                IN  IF item.t # "obj" THEN Raise("TypeError")
                    ELSE IF "text" \notin DOMAIN item.m THEN Raise("KeyError")
                    ELSE JsonLoads(item.m["text"])

\* An interpretation that looks at the result before the error.
InterpretResultFirst(tr) ==
  IF "result" \in DOMAIN tr.m THEN ExtractPayload(tr.m["result"])
  ELSE IF "error" \in DOMAIN tr.m THEN RemoteError(tr)
  ELSE Ret(Err(Str("No result from MCP server")))

\* What is made of the response with id=1.
Interpret(tr) ==
  IF "error" \in DOMAIN tr.m THEN RemoteError(tr)
  ELSE IF "result" \notin DOMAIN tr.m THEN Ret(Err(Str("No result from MCP server")))
  ELSE ExtractPayload(tr.m["result"])

\* A parse that gives up when the handshake line is no result.
ParseGraphStrictHandshake(l0, l1) ==
  IF l0.kind # "json" \/ "result" \notin DOMAIN l0.msg.m
  THEN Ret(Err(Str("MCP handshake failed")))
  ELSE LET rs == Responses(<<l0, l1>>)
       IN  IF ToolResponseIdx(rs) = {}
           THEN Ret(Err(Str("No tool response from MCP server")))
           ELSE Interpret(rs[FirstOf(ToolResponseIdx(rs))])

\* A parse without the check for empty output.
ParseGraphWithoutEmptyCheck(l0, l1) ==
  LET rs == Responses(<<l0, l1>>)
  IN  IF rs = << >> THEN Ret(Err(Str("No valid responses from MCP server")))
      ELSE IF ToolResponseIdx(rs) = {}
           THEN Ret(Err(Str("No tool response from MCP server")))
           ELSE Interpret(rs[FirstOf(ToolResponseIdx(rs))])

\* graph.py: the parse of the two lines, after teardown.
ParseGraph(l0, l1) ==
  IF IsBlank(l0) /\ IsBlank(l1)
  THEN Ret(Err(Str("MCP server returned empty response")))
  ELSE LET rs == Responses(<<l0, l1>>)
       IN  IF rs = << >> THEN Ret(Err(Str("No valid responses from MCP server")))
           ELSE IF ToolResponseIdx(rs) = {}
                THEN Ret(Err(Str("No tool response from MCP server")))
                ELSE Interpret(rs[FirstOf(ToolResponseIdx(rs))])

\* A parse of graph_new.py that takes the first parsed line for the tool
\* response, whatever its id.
ParseGraphNewFirstParsed(l0, l1) ==
  LET rs == Responses(<<l0, l1>>)
  IN  IF rs = << >>
      THEN Ret(Err(Str("No tool response from MCP server")))
      ELSE Interpret(rs[1])

\* graph_new.py: the parse of the two lines, inside the inner try.
ParseGraphNew(l0, l1) ==
  LET rs == Responses(<<l0, l1>>)
  IN  IF ToolResponseIdx(rs) = {}
      THEN Ret(Err(Str("No tool response from MCP server")))
      ELSE Interpret(rs[FirstOf(ToolResponseIdx(rs))])

\* The two outer handlers of graph.py.
OuterHandler(e) ==
  IF e = "JSONDecodeError" THEN Err(Fmt("Invalid JSON from MCP: ", Str(e)))
  ELSE Err(Fmt("Failed to call MCP: ", Str(e)))

\* The inner handler's return value (after kill and wait).
CommunicationError(e) == Err(Fmt("MCP communication error: ", Str(e)))


(***************************************************************************)
(* The worker side of the protocol: a tool's answer is one text content    *)
(* item whose text is the JSON-encoded payload, inside a JSON-RPC message. *)
(***************************************************************************)
TextContent(text) == Obj("type" :> Str("text") @@ "text" :> text)
ToolResult(payload) == Obj("content" :> List(<<TextContent(JsonDumps(payload))>>))
Response(id, result) ==
  Obj("jsonrpc" :> Str("2.0") @@ "id" :> id @@ "result" :> result)
ErrorResponse(id, error) ==
  Obj("jsonrpc" :> Str("2.0") @@ "id" :> id @@ "error" :> error)

\* The payloads a worker answers with in the bridge's state space.
BridgePayloads ==
  { Obj("summary" :> List(<< >>) @@ "roles" :> List(<<Str("Admin")>>)),
    Obj("error" :> Str("Roles are required")),
    Null }

\* The JSON-RPC messages a worker may print.
Msgs ==
  { Response(Num(0), Obj("protocolVersion" :> Str("2024-11-05"))),
    ErrorResponse(Num(0), Obj("message" :> Str("unsupported protocol version"))),
    ErrorResponse(Num(1), Obj("message" :> Str("boom"))),
    ErrorResponse(Num(1), Obj("code" :> Num(500))),
    ErrorResponse(Num(1), Str("boom")),
    Obj("id" :> Num(1) @@ "error" :> Obj("message" :> Str("boom"))
        @@ "result" :> ToolResult(Null)),
    Obj("jsonrpc" :> Str("2.0") @@ "id" :> Num(1)),
    Response(Num(1), EmptyObj),
    Response(Num(1), Obj("content" :> List(<< >>))),
    Response(Num(1), Null),
    Response(Num(1), Obj("content" :> List(<<TextContent(Str("not json"))>>))),
    Obj("jsonrpc" :> Str("2.0") @@ "result" :> ToolResult(Null)) }
  \cup {Response(Num(1), ToolResult(p)) : p \in BridgePayloads}

\* Every line readline() may return.
Lines ==
  {EofLine, BlankLine, TextLine, BadJsonLine} \cup {JsonLine(m) : m \in Msgs}

(***************************************************************************)
(* call_mcp_tool as a state machine.  procs is the process table (a pid is *)
(* an index into it); call[c] is the activation record of invocation c.    *)
(***************************************************************************)
VARIABLES procs, call, facade, denodo, demux, mock, agent

\* Every call owns its worker and shares nothing with another call: one call
\* is followed.
Calls == {"c1"}
Impls == {"graph", "graph_new"}
NoRet == [t |-> "noret"]

\* The request sequence on the worker's pipes of a complete exchange.
FullExchange == <<"W0", "R0", "W1", "R1">>

\* An exception raised by a step of the call.
Raised(step, e) == [step |-> step, e |-> e]

\* process.returncode: None until the process is reaped, then the exit
\* status (0 or 1 when the worker exited by itself, minus the signal number
\* when a signal ended it).
NoCode == [t |-> "null"]
ExitCode(n) == [t |-> "num", n |-> n]
ExitCodes == {ExitCode(0), ExitCode(1), ExitCode(0 - 15)}
KilledCode == ExitCode(0 - 9)
\* What the worker wrote to its error stream.
StderrTexts == {"", "Traceback (most recent call last)"}

IdleCall ==
  [pc |-> "idle", impl |-> "graph", pid |-> 0, stdin |-> "none",
   log |-> << >>, lines |-> << >>, raised |-> << >>, exc |-> "", ret |-> NoRet,
   returncode |-> NoCode, stderr |-> ""]

BridgeInit ==
  /\ procs = << >>
  /\ call = [c \in Calls |-> IdleCall]

\* The state of the process the call owns.
ProcOf(c) == procs[call[c].pid]

\* Popen.send_signal: poll() first, which reaps a process that has already
\* exited (newer Pythons) or leaves it (older ones); SIGKILL ends a running
\* process, SIGTERM leaves it to the worker to exit.
SendSignal(st, sigkill) ==
  CASE st = "running" -> IF sigkill THEN {"zombie"} ELSE {"running"}
    [] st = "zombie" -> {"zombie", "reaped"}
    [] OTHER -> {"reaped"}

\* A bridge that keeps one worker and hands it to every call.
PopenSharingWorker(c) ==
  /\ UNCHANGED <<facade, denodo, demux, mock, agent>>
  /\ call[c].pc = "idle"
  /\ \E i \in Impls :
       call' = [call EXCEPT ![c] =
                  [IdleCall EXCEPT !.pc = "write_init", !.impl = i,
                                   !.pid = 1, !.stdin = "open"]]
  /\ procs' = IF procs = << >> THEN <<"running">> ELSE procs

\* subprocess.Popen(...) succeeds: a new process, three pipes.
PopenOk(c) ==
  /\ UNCHANGED <<facade, denodo, demux, mock, agent>>
  /\ call[c].pc = "idle"
  /\ \E i \in Impls :
       call' = [call EXCEPT ![c] =
                  [IdleCall EXCEPT !.pc = "write_init", !.impl = i,
                                   !.pid = Len(procs) + 1, !.stdin = "open"]]
  /\ procs' = Append(procs, "running")

\* subprocess.Popen(...) raises (no interpreter): the outer handler answers.
PopenFails(c) ==
  /\ UNCHANGED <<facade, denodo, demux, mock, agent>>
  /\ call[c].pc = "idle"
  /\ \E i \in Impls :
       call' = [call EXCEPT ![c] =
                  [IdleCall EXCEPT !.pc = "done", !.impl = i,
                                   !.raised = <<Raised("popen", "OSError")>>,
                                   !.ret = Err(Fmt("Failed to call MCP: ", Str("OSError")))]]
  /\ UNCHANGED procs

\* A bridge that sends the tool request without reading the handshake line.
WriteWithoutHandshakeRead(c) ==
  /\ UNCHANGED <<facade, denodo, demux, mock, agent>>
  /\ call[c].pc \in {"write_init", "write_tool"}
  /\ call' = [call EXCEPT
       ![c].log = Append(@, IF call[c].pc = "write_init" THEN "W0" ELSE "W1"),
       ![c].pc = IF call[c].pc = "write_init" THEN "write_tool" ELSE "read_tool"]
  /\ UNCHANGED procs

\* process.stdin.write(request + "\n"); process.stdin.flush()
WriteOk(c) ==
  /\ UNCHANGED <<facade, denodo, demux, mock, agent>>
  /\ call[c].pc \in {"write_init", "write_tool"}
  /\ call' = [call EXCEPT
       ![c].log = Append(@, IF call[c].pc = "write_init" THEN "W0" ELSE "W1"),
       ![c].pc = IF call[c].pc = "write_init" THEN "read_init" ELSE "read_tool"]
  /\ UNCHANGED procs

\* A bridge that sends the request again when the write raised.
WriteRaisesAndResends(c) ==
  /\ UNCHANGED <<facade, denodo, demux, mock, agent>>
  /\ call[c].pc \in {"write_init", "write_tool"}
  /\ ProcOf(c) # "running"
  /\ Len(call[c].raised) < 2
  /\ call' = [call EXCEPT
       ![c].raised = Append(@, Raised("write", "BrokenPipeError")),
       ![c].log = Append(@, IF call[c].pc = "write_init" THEN "W0" ELSE "W1")]
  /\ UNCHANGED procs

\* The write or flush raises BrokenPipeError: the worker has exited.
WriteRaises(c) ==
  /\ UNCHANGED <<facade, denodo, demux, mock, agent>>
  /\ call[c].pc \in {"write_init", "write_tool"}
  /\ ProcOf(c) # "running"
  /\ call' = [call EXCEPT ![c].exc = "BrokenPipeError",
                          ![c].raised = Append(@, Raised("write", "BrokenPipeError")),
                          ![c].pc = "exc_kill"]
  /\ UNCHANGED procs

\* A pipe on which a line may still arrive after end of file was read.
ReadLineAfterEof(c) ==
  /\ UNCHANGED <<facade, denodo, demux, mock, agent>>
  /\ call[c].pc \in {"read_init", "read_tool"}
  /\ \E l \in Lines :
       call' = [call EXCEPT
         ![c].lines = Append(@, l),
         ![c].log = Append(@, IF call[c].pc = "read_init" THEN "R0" ELSE "R1"),
         ![c].pc = IF call[c].pc = "read_init" THEN "write_tool" ELSE "close_stdin"]
  /\ UNCHANGED procs

\* process.stdout.readline() returns a line of the worker's repertoire ls;
\* '' (end of file) stays ''.
ReadLine(c, ls) ==
  /\ UNCHANGED <<facade, denodo, demux, mock, agent>>
  /\ call[c].pc \in {"read_init", "read_tool"}
  /\ \E l \in ls :
       /\ (\E i \in 1..Len(call[c].lines) : call[c].lines[i] = EofLine) => l = EofLine
       /\ call' = [call EXCEPT
            ![c].lines = Append(@, l),
            ![c].log = Append(@, IF call[c].pc = "read_init" THEN "R0" ELSE "R1"),
            ![c].pc = IF call[c].pc = "read_init" THEN "write_tool" ELSE "close_stdin"]
  /\ UNCHANGED procs

\* readline() against a worker that may print any line.
ReadLineOk(c) == ReadLine(c, Lines)

\* readline() raises (the worker printed bytes that are not text).
ReadLineRaises(c) ==
  /\ UNCHANGED <<facade, denodo, demux, mock, agent>>
  /\ call[c].pc \in {"read_init", "read_tool"}
  /\ call' = [call EXCEPT ![c].exc = "UnicodeDecodeError",
                          ![c].raised = Append(@, Raised("read", "UnicodeDecodeError")),
                          ![c].pc = "exc_kill"]
  /\ UNCHANGED procs

\* A bridge that goes on to terminate() with the worker's stdin still open.
SkipCloseStdin(c) ==
  /\ UNCHANGED <<facade, denodo, demux, mock, agent>>
  /\ call[c].pc = "close_stdin"
  /\ call' = [call EXCEPT ![c].pc = "terminate"]
  /\ UNCHANGED procs

\* process.stdin.close(); time.sleep(0.5)
CloseStdin(c) ==
  /\ UNCHANGED <<facade, denodo, demux, mock, agent>>
  /\ call[c].pc = "close_stdin"
  /\ call' = [call EXCEPT ![c].stdin = "closed", ![c].log = Append(@, "close"),
                          ![c].pc = "terminate"]
  /\ UNCHANGED procs

\* process.terminate()
Terminate(c) ==
  /\ UNCHANGED <<facade, denodo, demux, mock, agent>>
  /\ call[c].pc = "terminate"
  /\ \E st \in SendSignal(ProcOf(c), FALSE) :
       procs' = [procs EXCEPT ![call[c].pid] = st]
  /\ call' = [call EXCEPT ![c].log = Append(@, "terminate"), ![c].pc = "wait"]

\* Where the call goes once the worker is reaped: graph.py reads the error
\* stream first, graph_new.py parses at once.
AfterReap(c) == IF call[c].impl = "graph" THEN "read_stderr" ELSE "parse"

\* process.wait(timeout=2) returns: the worker has exited and is reaped.
WaitOk(c) ==
  /\ UNCHANGED <<facade, denodo, demux, mock, agent>>
  /\ call[c].pc = "wait"
  /\ ProcOf(c) # "running"
  /\ procs' = [procs EXCEPT ![call[c].pid] = "reaped"]
  /\ \E rc \in ExitCodes :
       call' = [call EXCEPT ![c].log = Append(@, "wait"), ![c].returncode = rc,
                            ![c].pc = AfterReap(c)]

\* A wait without a timeout: it goes on waiting while the worker runs.
WaitWithoutTimeout(c) ==
  /\ UNCHANGED <<facade, denodo, demux, mock, agent>>
  /\ call[c].pc = "wait"
  /\ ProcOf(c) = "running"
  /\ UNCHANGED <<call, procs>>

\* process.wait(timeout=2) raises TimeoutExpired: the worker still runs.
WaitTimeout(c) ==
  /\ UNCHANGED <<facade, denodo, demux, mock, agent>>
  /\ call[c].pc = "wait"
  /\ ProcOf(c) = "running"
  /\ call' = [call EXCEPT ![c].raised = Append(@, Raised("wait", "TimeoutExpired")),
                          ![c].pc = "kill_to"]
  /\ UNCHANGED procs

\* except subprocess.TimeoutExpired: process.kill()
KillAfterTimeout(c) ==
  /\ UNCHANGED <<facade, denodo, demux, mock, agent>>
  /\ call[c].pc = "kill_to"
  /\ \E st \in SendSignal(ProcOf(c), TRUE) :
       procs' = [procs EXCEPT ![call[c].pid] = st]
  /\ call' = [call EXCEPT ![c].log = Append(@, "kill"), ![c].pc = "wait_to"]

\* ... process.wait()
WaitAfterKill(c) ==
  /\ UNCHANGED <<facade, denodo, demux, mock, agent>>
  /\ call[c].pc = "wait_to"
  /\ ProcOf(c) # "running"
  /\ procs' = [procs EXCEPT ![call[c].pid] = "reaped"]
  /\ call' = [call EXCEPT ![c].log = Append(@, "wait"), ![c].returncode = KilledCode,
                          ![c].pc = AfterReap(c)]

\* graph.py: stderr = process.stderr.read()
ReadStderrOk(c) ==
  /\ UNCHANGED <<facade, denodo, demux, mock, agent>>
  /\ call[c].pc = "read_stderr"
  /\ \E text \in StderrTexts :
       call' = [call EXCEPT ![c].stderr = text, ![c].pc = "parse"]
  /\ UNCHANGED procs

\* graph.py: process.stderr.read() raises (bytes that are not text).
ReadStderrRaises(c) ==
  /\ UNCHANGED <<facade, denodo, demux, mock, agent>>
  /\ call[c].pc = "read_stderr"
  /\ call' = [call EXCEPT ![c].exc = "UnicodeDecodeError",
                          ![c].raised = Append(@, Raised("stderr", "UnicodeDecodeError")),
                          ![c].pc = "exc_kill"]
  /\ UNCHANGED procs

\* A parse that gives up when the worker's exit status is not zero.
ParseOuterChecksExit(c) ==
  /\ UNCHANGED <<facade, denodo, demux, mock, agent>>
  /\ call[c].pc = "parse"
  /\ call[c].impl = "graph"
  /\ LET p == ParseGraph(call[c].lines[1], call[c].lines[2])
     IN  call' = [call EXCEPT
           ![c].ret = IF call[c].returncode # ExitCode(0)
                      THEN Err(Str("MCP server returned empty response"))
                      ELSE IF p.k = "ret" THEN p.v ELSE OuterHandler(p.e),
           ![c].raised = IF p.k = "ret" THEN @ ELSE Append(@, Raised("parse", p.e)),
           ![c].pc = "done"]
  /\ UNCHANGED procs

\* graph.py: the parse after the inner try; an exception goes to the outer
\* handlers.
ParseOuter(c) ==
  /\ UNCHANGED <<facade, denodo, demux, mock, agent>>
  /\ call[c].pc = "parse"
  /\ call[c].impl = "graph"
  /\ LET p == ParseGraph(call[c].lines[1], call[c].lines[2])
     IN  call' = [call EXCEPT
           ![c].ret = IF p.k = "ret" THEN p.v ELSE OuterHandler(p.e),
           ![c].raised = IF p.k = "ret" THEN @ ELSE Append(@, Raised("parse", p.e)),
           ![c].pc = "done"]
  /\ UNCHANGED procs

\* A parse whose answer depends on the process table: a call that is not
\* the first to spawn is given the empty-response error.
ParseInnerDependsOnTable(c) ==
  /\ UNCHANGED <<facade, denodo, demux, mock, agent>>
  /\ call[c].pc = "parse"
  /\ call[c].impl = "graph_new"
  /\ call' = [call EXCEPT
       ![c].ret = IF call[c].pid = 1
                  THEN ParseGraph(call[c].lines[1], call[c].lines[2]).v
                  ELSE Err(Str("MCP server returned empty response")),
       ![c].pc = "done"]
  /\ UNCHANGED procs

\* graph_new.py: the parse inside the inner try; an exception goes to the
\* inner handler.
ParseInner(c) ==
  /\ UNCHANGED <<facade, denodo, demux, mock, agent>>
  /\ call[c].pc = "parse"
  /\ call[c].impl = "graph_new"
  /\ LET p == ParseGraphNew(call[c].lines[1], call[c].lines[2])
     IN  call' = [call EXCEPT
           ![c].ret = IF p.k = "ret" THEN p.v ELSE @,
           ![c].exc = IF p.k = "ret" THEN @ ELSE p.e,
           ![c].raised = IF p.k = "ret" THEN @ ELSE Append(@, Raised("parse", p.e)),
           ![c].pc = IF p.k = "ret" THEN "done" ELSE "exc_kill"]
  /\ UNCHANGED procs

\* except Exception as e: process.kill()
ExcKill(c) ==
  /\ UNCHANGED <<facade, denodo, demux, mock, agent>>
  /\ call[c].pc = "exc_kill"
  /\ \E st \in SendSignal(ProcOf(c), TRUE) :
       procs' = [procs EXCEPT ![call[c].pid] = st]
  /\ call' = [call EXCEPT ![c].log = Append(@, "kill"), ![c].pc = "exc_wait"]

\* A handler that returns after kill() without waiting for the worker.
ExcReturnWithoutWait(c) ==
  /\ UNCHANGED <<facade, denodo, demux, mock, agent>>
  /\ call[c].pc = "exc_wait"
  /\ call' = [call EXCEPT ![c].ret = CommunicationError(call[c].exc), ![c].pc = "done"]
  /\ UNCHANGED procs

\* A handler that answers like the outer handler does.
ExcWaitOuterAnswer(c) ==
  /\ UNCHANGED <<facade, denodo, demux, mock, agent>>
  /\ call[c].pc = "exc_wait"
  /\ ProcOf(c) # "running"
  /\ procs' = [procs EXCEPT ![call[c].pid] = "reaped"]
  /\ call' = [call EXCEPT ![c].log = Append(@, "wait"),
                          ![c].ret = OuterHandler(call[c].exc),
                          ![c].pc = "done"]

\* ... process.wait(); return {"error": f"MCP communication error: {e}"}
ExcWait(c) ==
  /\ UNCHANGED <<facade, denodo, demux, mock, agent>>
  /\ call[c].pc = "exc_wait"
  /\ ProcOf(c) # "running"
  /\ procs' = [procs EXCEPT ![call[c].pid] = "reaped"]
  /\ call' = [call EXCEPT ![c].log = Append(@, "wait"),
                          ![c].ret = CommunicationError(call[c].exc),
                          ![c].pc = "done"]

\* The worker exits by itself: it crashed, it reached the end of its input,
\* or it obeyed SIGTERM.
WorkerExit(p) ==
  /\ UNCHANGED <<facade, denodo, demux, mock, agent>>
  /\ procs[p] = "running"
  /\ procs' = [procs EXCEPT ![p] = "zombie"]
  /\ UNCHANGED call

CallStep(c) ==
  \/ PopenOk(c) \/ PopenFails(c)
  \/ WriteOk(c) \/ WriteRaises(c)
  \/ ReadLineOk(c) \/ ReadLineRaises(c)
  \/ CloseStdin(c) \/ Terminate(c)
  \/ WaitOk(c) \/ WaitTimeout(c) \/ KillAfterTimeout(c) \/ WaitAfterKill(c)
  \/ ReadStderrOk(c) \/ ReadStderrRaises(c)
  \/ ParseOuter(c) \/ ParseInner(c)
  \/ ExcKill(c) \/ ExcWait(c)



(***************************************************************************)
(* The data worker (mcp/denodo_mcp.py).  A query text is the sequence of   *)
(* its pieces: fixed text, select fields, predicates that carry a value.   *)
(***************************************************************************)
Truthy(j) == ~PyNot(j)

Kw(s) == [tok |-> s]
Field(col) == [tok |-> "field", col |-> col]
Cond(col, op, val) == [tok |-> "cond", col |-> col, op |-> op, val |-> val]
LimitTok(val) == [tok |-> "LIMIT", val |-> val]

\* sep.join(parts) for a sequence of pieces
JoinWith(parts, sep) ==
  LET RECURSIVE J(_)
      J(i) == IF i > Len(parts) THEN << >>
              ELSE IF i = Len(parts) THEN <<parts[i]>>
              ELSE <<parts[i], sep>> \o J(i + 1)
  IN  J(1)

\* A role clause that keeps the first role of the list alone.
RoleConditionsOfFirstRole(col, roles) ==
  JoinWith([i \in 1..(IF Len(roles.items) > 0 THEN 1 ELSE 0) |->
              Cond(col, "LIKE", roles.items[i])], Kw("OR"))

\* " OR ".join([f"{col} LIKE '%{role}%'" for role in roles])
RoleConditions(col, roles) ==
  JoinWith([i \in 1..Len(roles.items) |-> Cond(col, "LIKE", roles.items[i])], Kw("OR"))

CoreFields ==
  <<Field("r1.account_number"), Field("r1.entitlement_roles"), Field("r1.account_status")>>
DetailFields ==
  <<Field("r2.client_name"), Field("r2.account_type"), Field("r2.open_date"),
    Field("r2.branch_code")>>
BalanceFields ==
  <<Field("r3.balance"), Field("r3.currency"), Field("r3.last_updated")>>
FromBase == Kw("FROM RCAT0300 r1")
JoinDetails == Kw("INNER JOIN RPBT0100 r2 ON r1.account_number = r2.account_number")
JoinBalance == Kw("INNER JOIN RPBT0200 r3 ON r1.account_number = r3.account_number")

\* where_conditions with the balance bound added whatever include_balance says.
WhereConditionsBalanceUnguarded(roles, filters, include_balance, include_details) ==
  (IF Truthy(roles)
   THEN << <<Kw("(")>> \o RoleConditions("r1.entitlement_roles", roles) \o <<Kw(")")>> >>
   ELSE << >>)
  \o
  (IF Truthy(filters) /\ Truthy(Get(filters, "min_balance", Null))
   THEN << <<Cond("r3.balance", ">=", filters.m["min_balance"])>> >>
   ELSE << >>)

\* where_conditions without the account_status predicate.
WhereConditionsWithoutStatus(roles, filters, include_balance, include_details) ==
  (IF Truthy(roles)
   THEN << <<Kw("(")>> \o RoleConditions("r1.entitlement_roles", roles) \o <<Kw(")")>> >>
   ELSE << >>)
  \o
  (IF Truthy(filters)
   THEN (IF Truthy(Get(filters, "account_number", Null))
         THEN << <<Cond("r1.account_number", "=", filters.m["account_number"])>> >>
         ELSE << >>)
        \o
        (IF Truthy(Get(filters, "min_balance", Null)) /\ Truthy(include_balance)
         THEN << <<Cond("r3.balance", ">=", filters.m["min_balance"])>> >>
         ELSE << >>)
        \o
        (IF Truthy(Get(filters, "account_type", Null)) /\ Truthy(include_details)
         THEN << <<Cond("r2.account_type", "=", filters.m["account_type"])>> >>
         ELSE << >>)
   ELSE << >>)

\* where_conditions that tests whether a key is in the filters, not whether
\* its value is truthy.
WhereConditionsOfPresentKeys(roles, filters, include_balance, include_details) ==
  (IF Truthy(roles)
   THEN << <<Kw("(")>> \o RoleConditions("r1.entitlement_roles", roles) \o <<Kw(")")>> >>
   ELSE << >>)
  \o
  (IF Truthy(filters)
   THEN (IF "account_number" \in DOMAIN filters.m
         THEN << <<Cond("r1.account_number", "=", filters.m["account_number"])>> >>
         ELSE << >>)
        \o
        (IF "account_status" \in DOMAIN filters.m
         THEN << <<Cond("r1.account_status", "=", filters.m["account_status"])>> >>
         ELSE << >>)
        \o
        (IF "min_balance" \in DOMAIN filters.m /\ Truthy(include_balance)
         THEN << <<Cond("r3.balance", ">=", filters.m["min_balance"])>> >>
         ELSE << >>)
        \o
        (IF "account_type" \in DOMAIN filters.m /\ Truthy(include_details)
         THEN << <<Cond("r2.account_type", "=", filters.m["account_type"])>> >>
         ELSE << >>)
   ELSE << >>)

\* The where_conditions list of build_accounts_query: each element is one
\* condition (a sequence of pieces).
WhereConditions(roles, filters, include_balance, include_details) ==
  (IF Truthy(roles)
   THEN << <<Kw("(")>> \o RoleConditions("r1.entitlement_roles", roles) \o <<Kw(")")>> >>
   ELSE << >>)
  \o
  (IF Truthy(filters)
   THEN (IF Truthy(Get(filters, "account_number", Null))
         THEN << <<Cond("r1.account_number", "=", filters.m["account_number"])>> >>
         ELSE << >>)
        \o
        (IF Truthy(Get(filters, "account_status", Null))
         THEN << <<Cond("r1.account_status", "=", filters.m["account_status"])>> >>
         ELSE << >>)
        \o
        (IF Truthy(Get(filters, "min_balance", Null)) /\ Truthy(include_balance)
         THEN << <<Cond("r3.balance", ">=", filters.m["min_balance"])>> >>
         ELSE << >>)
        \o
        (IF Truthy(Get(filters, "account_type", Null)) /\ Truthy(include_details)
         THEN << <<Cond("r2.account_type", "=", filters.m["account_type"])>> >>
         ELSE << >>)
   ELSE << >>)

\* " AND ".join(where_conditions), flattened to pieces
JoinConditions(conds) ==
  LET RECURSIVE J(_)
      J(i) == IF i > Len(conds) THEN << >>
              ELSE IF i = Len(conds) THEN conds[i]
              ELSE conds[i] \o <<Kw("AND")>> \o J(i + 1)
  IN  J(1)

\* build_accounts_query that selects every field group whatever the flags say.
BuildAccountsQuerySelectsAll(roles, filters, include_balance, include_details) ==
  <<Kw("SELECT")>> \o CoreFields \o DetailFields \o BalanceFields
  \o <<FromBase>>
  \o (IF Truthy(include_details) THEN <<JoinDetails>> ELSE << >>)
  \o (IF Truthy(include_balance) THEN <<JoinBalance>> ELSE << >>)
  \o <<Kw("WHERE")>>
  \o JoinConditions(WhereConditions(roles, filters, include_balance, include_details))
  \o <<Kw("ORDER BY r1.account_number")>>

\* build_accounts_query with both joins emitted whatever the flags say.
BuildAccountsQueryAlwaysJoined(roles, filters, include_balance, include_details) ==
  <<Kw("SELECT")>> \o CoreFields
  \o (IF Truthy(include_details) THEN DetailFields ELSE << >>)
  \o (IF Truthy(include_balance) THEN BalanceFields ELSE << >>)
  \o <<FromBase, JoinDetails, JoinBalance>>
  \o <<Kw("WHERE")>>
  \o JoinConditions(WhereConditions(roles, filters, include_balance, include_details))
  \o <<Kw("ORDER BY r1.account_number")>>

\* build_accounts_query that puts the LIMIT before the ORDER BY.
BuildAccountsQueryLimitFirst(roles, filters, include_balance, include_details) ==
  LET conds == WhereConditions(roles, filters, include_balance, include_details)
  IN  <<Kw("SELECT")>> \o CoreFields
      \o (IF Truthy(include_details) THEN DetailFields ELSE << >>)
      \o (IF Truthy(include_balance) THEN BalanceFields ELSE << >>)
      \o <<FromBase>>
      \o (IF Truthy(include_details) THEN <<JoinDetails>> ELSE << >>)
      \o (IF Truthy(include_balance) THEN <<JoinBalance>> ELSE << >>)
      \o (IF conds # << >> THEN <<Kw("WHERE")>> \o JoinConditions(conds) ELSE << >>)
      \o (IF Truthy(filters) /\ Truthy(Get(filters, "limit", Null))
          THEN <<LimitTok(filters.m["limit"])>> ELSE << >>)
      \o <<Kw("ORDER BY r1.account_number")>>

\* QueryBuilder.build_accounts_query
BuildAccountsQuery(roles, filters, include_balance, include_details) ==
  LET conds == WhereConditions(roles, filters, include_balance, include_details)
  IN  <<Kw("SELECT")>> \o CoreFields
      \o (IF Truthy(include_details) THEN DetailFields ELSE << >>)
      \o (IF Truthy(include_balance) THEN BalanceFields ELSE << >>)
      \o <<FromBase>>
      \o (IF Truthy(include_details) THEN <<JoinDetails>> ELSE << >>)
      \o (IF Truthy(include_balance) THEN <<JoinBalance>> ELSE << >>)
      \o (IF conds # << >> THEN <<Kw("WHERE")>> \o JoinConditions(conds) ELSE << >>)
      \o <<Kw("ORDER BY r1.account_number")>>
      \o (IF Truthy(filters) /\ Truthy(Get(filters, "limit", Null))
          THEN <<LimitTok(filters.m["limit"])>> ELSE << >>)

\* QueryBuilder.build_summary_query
BuildSummaryQuery(roles) ==
  <<Kw("SELECT"),
    Field("COUNT(DISTINCT r1.account_number) as total_accounts"),
    Field("SUM(r3.balance) as total_balance"),
    Field("COUNT(DISTINCT r2.client_name) as total_clients"),
    Field("r1.entitlement_roles"),
    FromBase, JoinDetails, JoinBalance, Kw("WHERE"), Kw("(")>>
  \o RoleConditions("entitlement_roles", roles)
  \o <<Kw(")"), Kw("GROUP BY r1.entitlement_roles")>>

\* QueryBuilder.build_account_detail_query
BuildAccountDetailQuery(account_number, roles) ==
  <<Kw("SELECT")>> \o CoreFields \o DetailFields \o BalanceFields
  \o <<FromBase, JoinDetails, JoinBalance, Kw("WHERE"),
       Cond("r1.account_number", "=", account_number), Kw("AND"), Kw("(")>>
  \o RoleConditions("r1.entitlement_roles", roles)
  \o <<Kw(")")>>

\* The text of a query, as the f-strings of the builders write it: a
\* sequence of chunks in which a quote character stands alone.  A value is
\* put between the quotes as it is, a quote inside it included.
Quote == "'"
QuotedRoleText == "x%') OR ('1' LIKE '1"
Chunks(s) ==
  IF s = QuotedRoleText
  THEN <<"x%", Quote, ")", "OR", "(", Quote, "1", Quote, "LIKE", Quote, "1">>
  ELSE <<s>>
\* str() of a number or of None has no quote in it.
ValueChunks(v) == IF v.t = "str" /\ "s" \in DOMAIN v THEN Chunks(v.s) ELSE <<"value">>
PieceText(p) ==
  CASE p.tok = "field" -> <<p.col>>
    [] p.tok = "LIMIT" -> <<"LIMIT", "value">>
    [] p.tok = "cond" /\ p.op = "LIKE" ->
         <<p.col, "LIKE", Quote, "%">> \o ValueChunks(p.val) \o <<"%", Quote>>
    [] p.tok = "cond" /\ p.op = "=" ->
         <<p.col, "=", Quote>> \o ValueChunks(p.val) \o <<Quote>>
    [] p.tok = "cond" -> <<p.col, p.op>> \o ValueChunks(p.val)
    [] OTHER -> <<p.tok>>
QueryChunks(q) ==
  LET RECURSIVE T(_)
      T(i) == IF i > Len(q) THEN << >> ELSE PieceText(q[i]) \o T(i + 1)
  IN  T(1)

\* The query as the SQL parser reads it: a string literal runs from a quote
\* to the next quote and is one token; the chunks outside literals are code.
SqlCode(chunks) ==
  LET RECURSIVE L(_, _)
      L(i, inLiteral) ==
        IF i > Len(chunks) THEN << >>
        ELSE IF chunks[i] = Quote
        THEN (IF inLiteral THEN << >> ELSE <<"literal">>) \o L(i + 1, ~inLiteral)
        ELSE IF inLiteral THEN L(i + 1, inLiteral)
        ELSE <<chunks[i]>> \o L(i + 1, inLiteral)
  IN  L(1, FALSE)

\* execute_custom_query: "WHERE" in query.upper()
UpperContainsWhere(q) ==
  \E i \in 1..Len(q) : q[i] \in {Kw("WHERE"), Kw("where"), Kw("Where")}

\* query.replace("WHERE", f"WHERE {role_filter} AND", 1): the first piece
\* that is WHERE in capitals is replaced; a query without one is unchanged.
ReplaceFirstWhere(q, roles) ==
  LET hits == {i \in 1..Len(q) : q[i] = Kw("WHERE")}
  IN  IF hits = {} THEN q
      ELSE LET i == FirstOf(hits)
           IN  SubSeq(q, 1, i - 1)
               \o <<Kw("WHERE"), Kw("AND"), Kw("(")>>
               \o RoleConditions("entitlement_roles", roles)
               \o <<Kw(")"), Kw("AND")>>
               \o SubSeq(q, i + 1, Len(q))

\* The query execute_custom_query hands to Denodo.
CustomQuery(q, roles) ==
  IF UpperContainsWhere(q) THEN ReplaceFirstWhere(q, roles) ELSE q

\* len(j) of a list or a dict
PyLen(j) ==
  CASE j.t = "list" -> Len(j.items)
    [] j.t = "obj" -> Cardinality(DOMAIN j.m)

\* The text of the worker's answer and the queries it executed on the way.
Answer(payload, queries) == [text |-> JsonDumps(payload), queries |-> queries]

\* except Exception as e: the answer is {"error": str(e)}
ErrorAnswer(e, queries) == Answer(Obj("error" :> Str(e)), queries)

\* query[:500], kept in the metadata of the answer
QueryHead(q) == [t |-> "str", head |-> q]

\* call_tool, name == "query_accounts_by_roles"; db is what
\* execute_denodo_query does with the query: a value or an exception.
DenodoQueryAccounts(args, db) ==
  LET roles == Get(args, "roles", List(<< >>))
      filters == Get(args, "filters", EmptyObj)
      include_balance == Get(args, "include_balance", Bool(TRUE))
      include_details == Get(args, "include_details", Bool(TRUE))
      query == BuildAccountsQuery(roles, filters, include_balance, include_details)
  IN  IF PyNot(roles) THEN Answer(Obj("error" :> Str("Roles are required")), << >>)
      ELSE IF db.k = "raise" THEN ErrorAnswer(db.e, <<query>>)
      ELSE IF db.v.t # "obj" THEN ErrorAnswer("AttributeError", <<query>>)
      ELSE LET elements == Get(db.v, "elements", List(<< >>))
           IN  IF elements.t \notin {"list", "obj"} THEN ErrorAnswer("TypeError", <<query>>)
               ELSE Answer(Obj("accounts" :> elements
                               @@ "total_count" :> Num(PyLen(elements))
                               @@ "query_metadata" :>
                                    Obj("roles_used" :> roles
                                        @@ "filters_applied" :> filters
                                        @@ "query" :> QueryHead(query))),
                           <<query>>)

\* call_tool, name == "get_account_summary"
DenodoSummary(args, db) ==
  LET roles == Get(args, "roles", List(<< >>))
      query == BuildSummaryQuery(roles)
  IN  IF db.k = "raise" THEN ErrorAnswer(db.e, <<query>>)
      ELSE IF db.v.t # "obj" THEN ErrorAnswer("AttributeError", <<query>>)
      ELSE Answer(Obj("summary" :> Get(db.v, "elements", List(<< >>))
                      @@ "roles" :> roles),
                  <<query>>)

\* call_tool, name == "get_account_detail"
DenodoDetail(args, db) ==
  LET account_number == Get(args, "account_number", Null)
      roles == Get(args, "roles", List(<< >>))
      query == BuildAccountDetailQuery(account_number, roles)
  IN  IF db.k = "raise" THEN ErrorAnswer(db.e, <<query>>)
      ELSE IF db.v.t # "obj" THEN ErrorAnswer("AttributeError", <<query>>)
      ELSE LET accounts == Get(db.v, "elements", List(<< >>))
           IN  IF PyNot(accounts)
               THEN Answer(Obj("error" :>
                             Str("Account not found or access denied based on roles")),
                           <<query>>)
               ELSE IF accounts.t # "list" THEN ErrorAnswer("KeyError", <<query>>)
               ELSE Answer(Obj("account" :> accounts.items[1]
                               @@ "access_granted" :> Bool(TRUE)),
                           <<query>>)

\* call_tool, name == "execute_custom_query"; a custom query is given as its
\* sequence of pieces, None as Null.
DenodoCustom(args, db) ==
  LET q == Get(args, "query", Null)
      roles == Get(args, "roles", List(<< >>))
  IN  IF q = Null THEN ErrorAnswer("AttributeError", << >>)
      ELSE LET query == CustomQuery(q.text, roles)
           IN  IF db.k = "raise" THEN ErrorAnswer(db.e, <<query>>)
               ELSE Answer(db.v, <<query>>)

\* Tool names whose text breaks the hand-written JSON of the unknown-tool
\* answer (a quote inside the name).
NameBreaksJson(name) == name \in {"no\"such"}

\* call_tool, any other name: f'{{"error": "Unknown tool: {name}"}}'
DenodoUnknown(name) ==
  [text |-> IF NameBreaksJson(name) THEN Str("{\"error\": \"Unknown tool: no\"such\"}")
            ELSE JsonDumps(Obj("error" :> Fmt("Unknown tool: ", Str(name)))),
   queries |-> << >>]

\* call_tool of denodo_mcp.py
DenodoCallTool(name, args, db) ==
  CASE name = "query_accounts_by_roles" -> DenodoQueryAccounts(args, db)
    [] name = "get_account_summary" -> DenodoSummary(args, db)
    [] name = "get_account_detail" -> DenodoDetail(args, db)
    [] name = "execute_custom_query" -> DenodoCustom(args, db)
    [] OTHER -> DenodoUnknown(name)


(***************************************************************************)
(* The mock data worker (mcp/denodo_mcp_mock.py).  MOCK_ACCOUNTS maps a    *)
(* role to its list of account dicts; an amount is kept in hundredths.     *)
(***************************************************************************)
Money(units, hundredths) == Num(units * 100 + hundredths)

MockAccount(number, client, type, balance, opened, branch, access, role) ==
  Obj("account_number" :> Str(number) @@ "client_name" :> Str(client)
      @@ "account_type" :> Str(type) @@ "account_status" :> Str("Active")
      @@ "balance" :> balance @@ "currency" :> Str("USD")
      @@ "open_date" :> Str(opened) @@ "branch_code" :> Str(branch)
      @@ "last_updated" :> Str("2024-11-09") @@ "access_level" :> Str(access)
      @@ "entitlement_roles" :> List(<<Str(role)>>))

MOCK_ACCOUNTS ==
  "Guest" :> <<MockAccount("GUEST-001", "Demo User", "Demo Account", Money(0, 0),
                           "2024-01-01", "DEMO", "Read-Only", "Guest")>>
  @@ "Admin" :> <<MockAccount("ACC-10001", "John Doe", "Checking", Money(15000, 50),
                              "2020-03-15", "NYC001", "Full Access", "Admin"),
                  MockAccount("ACC-10002", "Jane Smith", "Savings", Money(45000, 75),
                              "2019-07-22", "NYC001", "Full Access", "Admin"),
                  MockAccount("ACC-10003", "Bob Johnson", "Business", Money(125000, 0),
                              "2021-01-10", "NYC002", "Full Access", "Admin")>>
  @@ "Manager" :> <<MockAccount("ACC-20001", "Alice Williams", "Checking", Money(8500, 25),
                                "2022-05-18", "LA001", "Manager Access", "Manager"),
                    MockAccount("ACC-20002", "Charlie Brown", "Savings", Money(22000, 0),
                                "2021-11-03", "LA001", "Manager Access", "Manager")>>
  @@ "Analyst" :> <<MockAccount("ACC-30001", "David Lee", "Investment", Money(75000, 0),
                                "2020-09-12", "CHI001", "Read-Only", "Analyst")>>

\* A reference to one account dict of the data: <<role, position>>.
RefsOf(data, role) == [i \in 1..Len(data[role]) |-> <<role, i>>]
Deref(data, ref) == data[ref[1]][ref[2]]

\* `role in MOCK_ACCOUNTS`
IsMockRole(data, role) == role.t = "str" /\ "s" \in DOMAIN role /\ role.s \in DOMAIN data

\* get_accounts_for_roles: the accounts of every known role of the request,
\* in order; the Guest accounts when that gives none.
GetAccountsForRoles(data, roles) ==
  LET RECURSIVE Collect(_)
      Collect(i) ==
        IF i > Len(roles.items) THEN << >>
        ELSE (IF IsMockRole(data, roles.items[i])
              THEN RefsOf(data, roles.items[i].s) ELSE << >>) \o Collect(i + 1)
      accounts == Collect(1)
  IN  IF accounts = << >> /\ "Guest" \in DOMAIN data THEN RefsOf(data, "Guest")
      ELSE accounts

\* [a for a in filtered if a[key] == value]
KeepEqual(data, refs, key, value) ==
  SelectSeq(refs, LAMBDA r : Deref(data, r).m[key] = value)

\* apply_filters with a balance bound that is exclusive.
ApplyFiltersStrictBound(data, refs, filters) ==
  IF PyNot(filters) THEN Ret(refs)
  ELSE
    LET f1 == IF "account_number" \in DOMAIN filters.m
              THEN KeepEqual(data, refs, "account_number", filters.m["account_number"])
              ELSE refs
        f3 == IF "min_balance" \in DOMAIN filters.m
              THEN SelectSeq(f1, LAMBDA r :
                     Deref(data, r).m["balance"].n > filters.m["min_balance"].n)
              ELSE f1
        f4 == IF "limit" \in DOMAIN filters.m
              THEN SubSeq(f3, 1, IF filters.m["limit"].n < Len(f3)
                                 THEN filters.m["limit"].n ELSE Len(f3))
              ELSE f3
    IN  Ret(f4)

\* apply_filters: the references that pass, or the exception a comparison
\* raises (a balance that was removed, a bound that is no number).
ApplyFilters(data, refs, filters) ==
  IF PyNot(filters) THEN Ret(refs)
  ELSE
    LET f1 == IF "account_number" \in DOMAIN filters.m
              THEN KeepEqual(data, refs, "account_number", filters.m["account_number"])
              ELSE refs
        f2 == IF "account_status" \in DOMAIN filters.m
              THEN KeepEqual(data, f1, "account_status", filters.m["account_status"])
              ELSE f1
        hasMin == "min_balance" \in DOMAIN filters.m
        f3 == IF hasMin
              THEN SelectSeq(f2, LAMBDA r :
                     Deref(data, r).m["balance"].n >= filters.m["min_balance"].n)
              ELSE f2
        f4 == IF "limit" \in DOMAIN filters.m /\ filters.m["limit"] # Null
              THEN SubSeq(f3, 1, IF filters.m["limit"].n < Len(f3)
                                 THEN filters.m["limit"].n ELSE Len(f3))
              ELSE f3
    IN  IF hasMin /\ f2 # << >>
           /\ \E i \in 1..Len(f2) : "balance" \notin DOMAIN Deref(data, f2[i]).m
        THEN Raise("KeyError")
        ELSE IF hasMin /\ f2 # << >> /\ filters.m["min_balance"].t # "num"
        THEN Raise("TypeError")
        ELSE IF "limit" \in DOMAIN filters.m /\ filters.m["limit"].t \notin {"num", "null"}
        THEN Raise("TypeError")
        ELSE Ret(f4)

\* dict.pop(key, None) for every key of keys
PopKeys(account, keys) ==
  Obj([k \in (DOMAIN account.m) \ keys |-> account.m[k]])

BalanceKeys == {"balance", "currency", "last_updated"}
DetailKeys == {"client_name", "account_type", "open_date", "branch_code"}

\* The data after the keys were popped from every referenced account.
PopFrom(data, refs, keys) ==
  [role \in DOMAIN data |->
     [i \in 1..Len(data[role]) |->
        IF \E n \in 1..Len(refs) : refs[n] = <<role, i>>
        THEN PopKeys(data[role][i], keys) ELSE data[role][i]]]

\* What the mock answers and the data it leaves behind.
MockAnswer(payload, data) == [text |-> JsonDumps(payload), data |-> data]

\* except Exception as e: {"error": f"Error executing tool {name}: {e}"}
MockErrorAnswer(name, e, data) ==
  MockAnswer(Obj("error" :> Fmt("Error executing tool " \o name \o ": ", Str(e))), data)

\* call_tool of the mock, name == "query_accounts_by_roles"
MockQueryAccounts(args, data) ==
  LET roles == Get(args, "roles", List(<< >>))
      filters == Get(args, "filters", EmptyObj)
      include_balance == Get(args, "include_balance", Bool(TRUE))
      include_details == Get(args, "include_details", Bool(TRUE))
      filtered == ApplyFilters(data, GetAccountsForRoles(data, roles), filters)
  IN  IF filtered.k = "raise"
      THEN MockErrorAnswer("query_accounts_by_roles", filtered.e, data)
      ELSE LET refs == filtered.v
               d1 == IF PyNot(include_balance) THEN PopFrom(data, refs, BalanceKeys)
                     ELSE data
               d2 == IF PyNot(include_details) THEN PopFrom(d1, refs, DetailKeys)
                     ELSE d1
           IN  MockAnswer(Obj("accounts" :> List([i \in 1..Len(refs) |-> Deref(d2, refs[i])])
                              @@ "total_count" :> Num(Len(refs))
                              @@ "roles_used" :> roles
                              @@ "data_source" :> Str("mock")),
                          d2)

\* The mock's get_account_detail with an answer for a missing account that
\* has no error key.
MockDetailWithoutError(args, data) ==
  LET account_number == Get(args, "account_number", Null)
      roles == Get(args, "roles", List(<< >>))
      all == GetAccountsForRoles(data, roles)
      hits == {i \in 1..Len(all) : Deref(data, all[i]).m["account_number"] = account_number}
  IN  IF hits = {}
      THEN MockAnswer(Obj("access_granted" :> Bool(FALSE)), data)
      ELSE MockAnswer(Obj("account" :> Deref(data, all[FirstOf(hits)])
                          @@ "access_granted" :> Bool(TRUE)
                          @@ "data_source" :> Str("mock")),
                      data)

\* call_tool of the mock, name == "get_account_detail"
MockDetail(args, data) ==
  LET account_number == Get(args, "account_number", Null)
      roles == Get(args, "roles", List(<< >>))
      all == GetAccountsForRoles(data, roles)
      hits == {i \in 1..Len(all) : Deref(data, all[i]).m["account_number"] = account_number}
  IN  IF hits = {}
      THEN MockAnswer(Obj("error" :>
                            Fmt("Account not found or not accessible with roles: ",
                                List(<<account_number, roles>>))
                          @@ "access_granted" :> Bool(FALSE)),
                      data)
      ELSE MockAnswer(Obj("account" :> Deref(data, all[FirstOf(hits)])
                          @@ "access_granted" :> Bool(TRUE)
                          @@ "data_source" :> Str("mock")),
                      data)

\* call_tool of the mock, any other name
MockUnknown(name, data) ==
  MockAnswer(Obj("error" :> Fmt("Unknown tool: ", Str(name))), data)

\* call_tool of denodo_mcp_mock.py
MockCallTool(name, args, data) ==
  CASE name = "query_accounts_by_roles" -> MockQueryAccounts(args, data)
    [] name = "get_account_detail" -> MockDetail(args, data)
    [] OTHER -> MockUnknown(name, data)

(***************************************************************************)
(* The entitlement worker (mcp/entitlement_mcp.py).  http is what the      *)
(* profile service does: a response body (any text) or an exception.       *)
(***************************************************************************)
EntitlementCallTool(name, args, http) ==
  IF name # "check_user_entitlement"
  THEN JsonDumps(Obj("error" :> Fmt("Unknown tool: ", Str(name))))
  ELSE IF PyNot(Get(args, "username", Null))
  THEN JsonDumps(Obj("error" :> Str("Username is required")))
  ELSE IF http.k = "ret" THEN http.v
  ELSE IF http.e = "HTTPError"
  THEN JsonDumps(Obj("error" :> Fmt("HTTP error: ", Str(http.e))))
  ELSE JsonDumps(Obj("error" :> Fmt("Unexpected error: ", Str(http.e))))


(***************************************************************************)
(* The tool facades (graph.py, graph_new.py).  A facade calls the bridge   *)
(* once; beh says how that call went: Popen failed, a pipe operation       *)
(* raised, or the exchange completed with two lines.                       *)
(***************************************************************************)
PopenFailed == [kind |-> "popen_fails"]
PipeRaised(e) == [kind |-> "comm", e |-> e]
Exchange(l0, l1) == [kind |-> "lines", l0 |-> l0, l1 |-> l1]

\* call_mcp_tool as a function of how the call went.
BridgeReturn(impl, beh) ==
  CASE beh.kind = "popen_fails" -> OuterHandler("OSError")
    [] beh.kind = "comm" -> CommunicationError(beh.e)
    [] beh.kind = "lines" ->
         LET p == IF impl = "graph" THEN ParseGraph(beh.l0, beh.l1)
                  ELSE ParseGraphNew(beh.l0, beh.l1)
         IN  IF p.k = "ret" THEN p.v
             ELSE IF impl = "graph" THEN OuterHandler(p.e)
             ELSE CommunicationError(p.e)

\* The two lines of a worker that follows the protocol and answers text.
InitLine == JsonLine(Response(Num(0), Obj("protocolVersion" :> Str("2024-11-05"))))
AnswerLine(text) == JsonLine(Response(Num(1), Obj("content" :> List(<<TextContent(text)>>))))
WorkerExchange(text) == Exchange(InitLine, AnswerLine(text))

\* What a facade hands back: the JSON text of an envelope, or an exception.
Envelope(e) == Ret(JsonDumps(Obj(e)))

\* f"{first} {last}"
FullName(first, last) == [t |-> "str", first |-> first, last |-> last]

\* check_user_entitlement after the bridge returned result.
EntitlementEnvelope(username, result) ==
  IF PyInRaises(result) THEN Raise("TypeError")
  ELSE IF PyIn("error", result)
  THEN (IF result.t # "obj" THEN Raise("TypeError")
        ELSE Envelope("error" :> result.m["error"] @@ "username" :> username))
  ELSE IF result.t # "obj" THEN Raise("AttributeError")
  ELSE LET data == Get(result, "data", EmptyObj)
       IN  IF data.t # "obj" THEN Raise("AttributeError")
           ELSE LET profile == Get(data, "profile", EmptyObj)
                IN  IF profile.t # "obj" THEN Raise("AttributeError")
                    ELSE Envelope(
                      "success" :> Bool(TRUE) @@ "username" :> username
                      @@ "profile" :> profile
                      @@ "roles" :> Get(profile, "role", List(<< >>))
                      @@ "status" :> Get(profile, "status", Null)
                      @@ "email" :> Get(profile, "email", Null)
                      @@ "name" :> FullName(Get(profile, "firstName", Str("")),
                                            Get(profile, "lastName", Str("")))
                      @@ "employee_id" :> Get(profile, "employeeId", Null))

\* A facade whose error envelope leaves the roles out.
AccountsEnvelopeWithoutRoles(impl, roles, result) ==
  IF PyInRaises(result) THEN Raise("TypeError")
  ELSE IF PyIn("error", result)
  THEN (IF result.t # "obj" THEN Raise("TypeError")
        ELSE Envelope("error" :> result.m["error"]))
  ELSE IF result.t # "obj" THEN Raise("AttributeError")
  ELSE Envelope(
         ("success" :> Bool(TRUE)
          @@ "accounts" :> Get(result, "accounts", List(<< >>))
          @@ "total_count" :> Get(result, "total_count", Num(0))
          @@ "roles_used" :> roles)
         @@ (IF impl = "graph"
             THEN "query_metadata" :> Get(result, "query_metadata", EmptyObj)
             ELSE << >>))

\* query_accounts_by_roles after the bridge returned result.
AccountsEnvelope(impl, roles, result) ==
  IF PyInRaises(result) THEN Raise("TypeError")
  ELSE IF PyIn("error", result)
  THEN (IF result.t # "obj" THEN Raise("TypeError")
        ELSE Envelope("error" :> result.m["error"] @@ "roles" :> roles))
  ELSE IF result.t # "obj" THEN Raise("AttributeError")
  ELSE Envelope(
         ("success" :> Bool(TRUE)
          @@ "accounts" :> Get(result, "accounts", List(<< >>))
          @@ "total_count" :> Get(result, "total_count", Num(0))
          @@ "roles_used" :> roles)
         @@ (IF impl = "graph"
             THEN "query_metadata" :> Get(result, "query_metadata", EmptyObj)
             ELSE << >>))

\* get_account_summary after the bridge returned result.
SummaryEnvelope(roles, result) ==
  IF PyInRaises(result) THEN Raise("TypeError")
  ELSE IF PyIn("error", result)
  THEN (IF result.t # "obj" THEN Raise("TypeError")
        ELSE Envelope("error" :> result.m["error"] @@ "roles" :> roles))
  ELSE IF result.t # "obj" THEN Raise("AttributeError")
  ELSE Envelope("success" :> Bool(TRUE)
                @@ "summary" :> Get(result, "summary", List(<< >>))
                @@ "roles" :> roles)

\* A facade whose error envelope also carries a success flag.
DetailEnvelopeWithSuccessFlag(account_number, result) ==
  IF PyInRaises(result) THEN Raise("TypeError")
  ELSE IF PyIn("error", result)
  THEN (IF result.t # "obj" THEN Raise("TypeError")
        ELSE Envelope("success" :> Bool(FALSE)
                      @@ "error" :> result.m["error"]
                      @@ "account_number" :> account_number
                      @@ "access_denied" :> Bool(TRUE)))
  ELSE IF result.t # "obj" THEN Raise("AttributeError")
  ELSE Envelope("success" :> Bool(TRUE)
                @@ "account" :> Get(result, "account", EmptyObj)
                @@ "access_granted" :> Get(result, "access_granted", Bool(FALSE)))

\* A facade whose error envelope is the one the other facades build.
DetailEnvelopeUnmarked(account_number, result) ==
  IF PyInRaises(result) THEN Raise("TypeError")
  ELSE IF PyIn("error", result)
  THEN (IF result.t # "obj" THEN Raise("TypeError")
        ELSE Envelope("error" :> result.m["error"]
                      @@ "account_number" :> account_number))
  ELSE IF result.t # "obj" THEN Raise("AttributeError")
  ELSE Envelope("success" :> Bool(TRUE)
                @@ "account" :> Get(result, "account", EmptyObj)
                @@ "access_granted" :> Get(result, "access_granted", Bool(FALSE)))

\* get_account_detail after the bridge returned result.
DetailEnvelope(account_number, result) ==
  IF PyInRaises(result) THEN Raise("TypeError")
  ELSE IF PyIn("error", result)
  THEN (IF result.t # "obj" THEN Raise("TypeError")
        ELSE Envelope("error" :> result.m["error"]
                      @@ "account_number" :> account_number
                      @@ "access_denied" :> Bool(TRUE)))
  ELSE IF result.t # "obj" THEN Raise("AttributeError")
  ELSE Envelope("success" :> Bool(TRUE)
                @@ "account" :> Get(result, "account", EmptyObj)
                @@ "access_granted" :> Get(result, "access_granted", Bool(FALSE)))

\* The username check_user_entitlement works with: its parameter in
\* graph.py, runtime.state.get("username", "unknown") in graph_new.py.
UsernameOf(impl, args) ==
  IF impl = "graph" THEN Get(args, "username", Null)
  ELSE Get(args, "username", Str("unknown"))

\* The arguments each facade passes to call_mcp_tool.
BridgeArguments(tool, impl, args) ==
  CASE tool = "check_user_entitlement" -> Obj("username" :> UsernameOf(impl, args))
    [] tool = "query_accounts_by_roles" ->
         Obj("roles" :> args.m["roles"]
             @@ "filters" :> (IF Truthy(args.m["filters"]) THEN args.m["filters"] ELSE EmptyObj)
             @@ "include_balance" :> args.m["include_balance"]
             @@ "include_details" :> args.m["include_details"])
    [] tool = "get_account_summary" -> Obj("roles" :> args.m["roles"])
    [] tool = "get_account_detail" ->
         Obj("account_number" :> args.m["account_number"] @@ "roles" :> args.m["roles"])

\* The text the worker behind a facade answers with: the entitlement
\* worker; denodo_mcp.py for graph.py; a fresh denodo_mcp_mock.py process
\* for graph_new.py.  up is what the worker's upstream service does.
WorkerText(tool, impl, bargs, up) ==
  IF tool = "check_user_entitlement" THEN EntitlementCallTool(tool, bargs, up)
  ELSE IF impl = "graph" THEN DenodoCallTool(tool, bargs, up).text
  ELSE MockCallTool(tool, bargs, MOCK_ACCOUNTS).text

\* How the bridge call went, given the environment of the call: env is a
\* failure of the pipes, arbitrary worker output, or a worker that runs as
\* coded on top of an upstream outcome.
BehaviourOf(tool, impl, args, env) ==
  IF env.kind = "worker"
  THEN WorkerExchange(WorkerText(tool, impl, BridgeArguments(tool, impl, args), env.up))
  ELSE env

\* One facade call: whether the bridge was called, what it returned, what
\* the facade hands back.
NotCalled(out) == [called |-> FALSE, result |-> NoRet, out |-> out]
Called(result, out) == [called |-> TRUE, result |-> result, out |-> out]

\* A facade that calls the bridge whatever the username is.
CheckUserEntitlementUnguarded(impl, args, env) ==
  LET username == UsernameOf(impl, args)
      result == BridgeReturn(impl, BehaviourOf("check_user_entitlement", impl, args, env))
  IN  Called(result, EntitlementEnvelope(username, result))

CheckUserEntitlement(impl, args, env) ==
  LET username == UsernameOf(impl, args)
      result == BridgeReturn(impl, BehaviourOf("check_user_entitlement", impl, args, env))
  IN  IF PyNot(username)
      THEN NotCalled(IF impl = "graph"
                     THEN Envelope("error" :> Str("Username is required")
                                   @@ "username" :> Null)
                     ELSE Envelope("error" :> Str("Username is required")))
      ELSE Called(result, EntitlementEnvelope(username, result))

QueryAccountsByRoles(impl, args, env) ==
  LET result == BridgeReturn(impl, BehaviourOf("query_accounts_by_roles", impl, args, env))
  IN  Called(result, AccountsEnvelope(impl, args.m["roles"], result))

GetAccountSummary(impl, args, env) ==
  LET result == BridgeReturn(impl, BehaviourOf("get_account_summary", impl, args, env))
  IN  Called(result, SummaryEnvelope(args.m["roles"], result))

GetAccountDetail(impl, args, env) ==
  LET result == BridgeReturn(impl, BehaviourOf("get_account_detail", impl, args, env))
  IN  Called(result, DetailEnvelope(args.m["account_number"], result))


(***************************************************************************)
(* The inputs the facades and the workers are exercised with.              *)
(***************************************************************************)
MaxRoles == 2
RoleNames == {"Admin", "Manager", "Auditor"}
RoleLists == UNION {[1..n -> {Str(r) : r \in RoleNames}] : n \in 0..MaxRoles}
RoleArgs == {List(rs) : rs \in RoleLists}
AccountNumbers == {Str("ACC-10001"), Str("GUEST-001"), Str("ACC-999")}
Flags == {Bool(TRUE), Bool(FALSE)}

FilterValues ==
  "account_number" :> Str("ACC-10001") @@ "account_status" :> Str("Active")
  @@ "account_type" :> Str("Checking") @@ "min_balance" :> Money(10000, 0)
  @@ "limit" :> Num(1)
\* Filters with a key whose value is present and falsy.
FalsyFilters ==
  {Obj("min_balance" :> Money(0, 0)), Obj("limit" :> Num(0)),
   Obj("account_number" :> Str("")),
   Obj("account_status" :> Str("") @@ "limit" :> Num(1)),
   Obj("account_type" :> Str("") @@ "min_balance" :> Money(10000, 0)),
   Obj("account_status" :> Str("Active") @@ "min_balance" :> Money(0, 0)
       @@ "limit" :> Num(0))}
FilterSpecs ==
  {Obj([k \in K |-> FilterValues[k]]) : K \in SUBSET (DOMAIN FilterValues)} \cup {Null}
  \cup FalsyFilters
FacadeFilters ==
  {Null, EmptyObj, Obj("min_balance" :> Money(10000, 0)), Obj("limit" :> Num(1)),
   Obj("account_number" :> Str("ACC-10001")),
   Obj("min_balance" :> Money(22000, 0)), Obj("min_balance" :> Money(0, 0)),
   Obj("min_balance" :> Money(10000, 0) @@ "limit" :> Num(1))}

\* Rows of the Denodo views, as the REST service returns them.
DbRow(number, roles, balance) ==
  Obj("account_number" :> Str(number) @@ "entitlement_roles" :> Str(roles)
      @@ "account_status" :> Str("Active") @@ "balance" :> balance)
DbRows ==
  <<DbRow("ACC-10001", "Admin", Money(15000, 50)),
    DbRow("ACC-10002", "Admin,Manager", Money(45000, 75)),
    DbRow("ACC-10003", "Admin", Money(9000, 0))>>
\* What execute_denodo_query does: raise, or return the service's JSON.
DbOutcomes ==
  { Raise("HTTPStatusError"),
    Ret(Obj("elements" :> List(<< >>))),
    Ret(Obj("elements" :> List(SubSeq(DbRows, 1, 1)))),
    Ret(Obj("elements" :> List(DbRows))),
    Ret(EmptyObj),
    Ret(List(<< >>)) }

\* A custom query text, as its pieces.
QueryText(pieces) == [t |-> "str", text |-> pieces]
CustomQueries ==
  { QueryText(<<Kw("SELECT * FROM RCAT0300")>>),
    QueryText(<<Kw("SELECT * FROM RCAT0300"), Kw("WHERE"),
                Cond("account_status", "=", Str("Active"))>>),
    QueryText(<<Kw("select * from RCAT0300"), Kw("where"),
                Cond("account_status", "=", Str("Active"))>>),
    Null }

\* Bodies the profile service may answer with.
ProfileBodies ==
  { Obj("data" :> Obj("profile" :>
        Obj("role" :> List(<<Str("Admin")>>) @@ "status" :> Str("ACTIVE")
            @@ "email" :> Str("alice@example.com") @@ "firstName" :> Str("Alice")
            @@ "lastName" :> Str("Liddell") @@ "employeeId" :> Str("E1")
            @@ "username" :> Str("alice")))),
    Obj("data" :> Null),
    Obj("data" :> Obj("profile" :> Null)),
    Obj("error" :> Str("no such user")),
    EmptyObj, Null, Num(7), List(<< >>), List(<<Str("error")>>),
    Str("an error occurred"), Str("ok") }
HttpOutcomes ==
  {Raise("HTTPError"), Raise("Exception"), Ret(Str("<html>"))}
  \cup {Ret(JsonDumps(b)) : b \in ProfileBodies}

\* The mock has no upstream service.
NoUpstream == Ret(Null)
Upstreams(tool, impl) ==
  IF tool = "check_user_entitlement" THEN HttpOutcomes
  ELSE IF impl = "graph" THEN DbOutcomes
  ELSE {NoUpstream}

AsCoded(up) == [kind |-> "worker", up |-> up]
FacadeEnvs(tool, impl) ==
  {PopenFailed, PipeRaised("BrokenPipeError"), PipeRaised("UnicodeDecodeError")}
  \cup {Exchange(l0, l1) : l0 \in {InitLine, BlankLine}, l1 \in Lines}
  \cup {AsCoded(up) : up \in Upstreams(tool, impl)}

UsernameArgs ==
  {EmptyObj} \cup {Obj("username" :> u) : u \in {Null, Str(""), Str("alice")}}
AccountsArgs ==
  {Obj("roles" :> r @@ "filters" :> f @@ "include_balance" :> b @@ "include_details" :> d) :
     r \in RoleArgs, f \in FacadeFilters, b \in Flags, d \in Flags}
SummaryArgs == {Obj("roles" :> r) : r \in RoleArgs}
DetailArgs == {Obj("account_number" :> a @@ "roles" :> r) : a \in AccountNumbers, r \in RoleArgs}

(***************************************************************************)
(* The facades as a state machine: facade holds the last call made.        *)
(***************************************************************************)

FacadeIdle ==
  [tool |-> "", impl |-> "graph", args |-> EmptyObj, env |-> PopenFailed,
   called |-> FALSE, result |-> NoRet, out |-> Ret(Null)]

FacadeRecord(tool, impl, args, env, r) ==
  [tool |-> tool, impl |-> impl, args |-> args, env |-> env,
   called |-> r.called, result |-> r.result, out |-> r.out]

CallCheckUserEntitlement ==
  /\ facade = FacadeIdle
  /\ UNCHANGED <<procs, call, denodo, demux, mock, agent>>
  /\ \E impl \in Impls, args \in UsernameArgs :
    \E env \in FacadeEnvs("check_user_entitlement", impl) :
      facade' = FacadeRecord("check_user_entitlement", impl, args, env,
                             CheckUserEntitlement(impl, args, env))

CallQueryAccountsByRoles ==
  /\ facade = FacadeIdle
  /\ UNCHANGED <<procs, call, denodo, demux, mock, agent>>
  /\ \E impl \in Impls, args \in AccountsArgs :
    \E env \in FacadeEnvs("query_accounts_by_roles", impl) :
      facade' = FacadeRecord("query_accounts_by_roles", impl, args, env,
                             QueryAccountsByRoles(impl, args, env))

CallGetAccountSummary ==
  /\ facade = FacadeIdle
  /\ UNCHANGED <<procs, call, denodo, demux, mock, agent>>
  /\ \E impl \in Impls, args \in SummaryArgs :
    \E env \in FacadeEnvs("get_account_summary", impl) :
      facade' = FacadeRecord("get_account_summary", impl, args, env,
                             GetAccountSummary(impl, args, env))

CallGetAccountDetail ==
  /\ facade = FacadeIdle
  /\ UNCHANGED <<procs, call, denodo, demux, mock, agent>>
  /\ \E impl \in Impls, args \in DetailArgs :
    \E env \in FacadeEnvs("get_account_detail", impl) :
      facade' = FacadeRecord("get_account_detail", impl, args, env,
                             GetAccountDetail(impl, args, env))

(***************************************************************************)
(* The data worker as a state machine: denodo holds the last request       *)
(* served, the answer and the queries handed to execute_denodo_query.      *)
(***************************************************************************)

DenodoIdle ==
  [name |-> "", args |-> EmptyObj, db |-> Ret(Null), text |-> Null, queries |-> << >>]

DenodoRecord(name, args, db) ==
  LET a == DenodoCallTool(name, args, db)
  IN  [name |-> name, args |-> args, db |-> db, text |-> a.text, queries |-> a.queries]

\* Role lists with a role whose text has quotes in it.
QuotedRole == Str(QuotedRoleText)
QuotedRoleArgs == {List(<<QuotedRole>>), List(<<Str("Admin"), QuotedRole>>)}
DenodoAccountsArgs ==
  {Obj("roles" :> r @@ "filters" :> f @@ "include_balance" :> b @@ "include_details" :> d) :
     r \in RoleArgs, f \in FilterSpecs, b \in Flags, d \in Flags}
  \cup {Obj("roles" :> r) : r \in RoleArgs \cup QuotedRoleArgs}
CustomArgs == {Obj("query" :> q @@ "roles" :> r) : q \in CustomQueries, r \in RoleArgs}
UnknownNames == {"list_tables", "no\"such"}

ServeQueryAccounts ==
  /\ denodo = DenodoIdle
  /\ UNCHANGED <<procs, call, facade, demux, mock, agent>>
  /\ \E args \in DenodoAccountsArgs, db \in DbOutcomes :
    denodo' = DenodoRecord("query_accounts_by_roles", args, db)

ServeSummary ==
  /\ denodo = DenodoIdle
  /\ UNCHANGED <<procs, call, facade, demux, mock, agent>>
  /\ \E args \in SummaryArgs \cup {Obj("roles" :> r) : r \in QuotedRoleArgs},
        db \in DbOutcomes :
    denodo' = DenodoRecord("get_account_summary", args, db)

ServeDetail ==
  /\ denodo = DenodoIdle
  /\ UNCHANGED <<procs, call, facade, demux, mock, agent>>
  /\ \E args \in DetailArgs
                  \cup {Obj("account_number" :> Str("ACC-10001") @@ "roles" :> r) :
                          r \in QuotedRoleArgs},
        db \in DbOutcomes :
    denodo' = DenodoRecord("get_account_detail", args, db)

ServeCustom ==
  /\ denodo = DenodoIdle
  /\ UNCHANGED <<procs, call, facade, demux, mock, agent>>
  /\ \E args \in CustomArgs, db \in DbOutcomes :
    denodo' = DenodoRecord("execute_custom_query", args, db)

ServeUnknown ==
  /\ denodo = DenodoIdle
  /\ UNCHANGED <<procs, call, facade, demux, mock, agent>>
  /\ \E name \in UnknownNames :
    denodo' = DenodoRecord(name, EmptyObj, Ret(Null))

(***************************************************************************)
(* The bridge in front of a worker that prints a stream of lines: demux    *)
(* holds the stream, and what the call that read from it returned.  The    *)
(* call reads one line for each of its two requests; a read past the end   *)
(* of the stream is end of file.                                           *)
(***************************************************************************)
MaxJunk == 5
JunkLines == {BlankLine, TextLine, BadJsonLine}
WantedLines == {JsonLine(Response(Num(1), ToolResult(p))) : p \in BridgePayloads}
\* The streams with one well-formed response with id 1 and n other lines,
\* none of which parses, in any positions.
StreamsWithJunk(n) ==
  {o \in [1..(n + 1) -> JunkLines \cup WantedLines] :
     Cardinality({i \in 1..(n + 1) : o[i] \in WantedLines}) = 1}
Streams == UNION {StreamsWithJunk(n) : n \in 0..MaxJunk}

\* The streams of a worker that follows the protocol (the handshake
\* response, then the response with id 1) and prints n informational lines
\* before or between the two.
MaxLogLines == 2
StreamsWithLogLines(n) ==
  {o \in [1..(n + 2) -> {TextLine, InitLine} \cup WantedLines] :
     \E i \in 1..(n + 1) :
       /\ o[i] = InitLine /\ o[n + 2] \in WantedLines
       /\ \A k \in 1..(n + 1) \ {i} : o[k] = TextLine}
LoggingStreams == UNION {StreamsWithLogLines(n) : n \in 1..MaxLogLines}

DemuxIdle == [impl |-> "", output |-> << >>, ret |-> NoRet]

\* readline() number i on a stream
LineRead(output, i) == IF i <= Len(output) THEN output[i] ELSE EofLine

\* call_mcp_tool on a stream: two reads, then the parse of the two lines.
CallOnStream(impl, output) ==
  BridgeReturn(impl, Exchange(LineRead(output, 1), LineRead(output, 2)))

DemuxGraph ==
  /\ demux = DemuxIdle
  /\ UNCHANGED <<procs, call, facade, denodo, mock, agent>>
  /\ \E output \in Streams \cup LoggingStreams :
       demux' = [impl |-> "graph", output |-> output,
                 ret |-> CallOnStream("graph", output)]

DemuxGraphNew ==
  /\ demux = DemuxIdle
  /\ UNCHANGED <<procs, call, facade, denodo, mock, agent>>
  /\ \E output \in Streams \cup LoggingStreams :
       demux' = [impl |-> "graph_new", output |-> output,
                 ret |-> CallOnStream("graph_new", output)]

(***************************************************************************)
(* One process of the mock data worker serving requests one after another: *)
(* mock holds the module-level MOCK_ACCOUNTS of the process, the number of *)
(* requests served and the last request with its answer.                   *)
(***************************************************************************)
MaxRequests == 2
MockRoleArgs ==
  {List(<< >>), List(<<Str("Admin")>>), List(<<Str("Manager")>>),
   List(<<Str("Manager"), Str("Admin")>>)}
MockFilters == {EmptyObj, Obj("min_balance" :> Money(10000, 0)), Obj("limit" :> Num(1))}
MockAccountsArgs ==
  {Obj("roles" :> r @@ "filters" :> f @@ "include_balance" :> b @@ "include_details" :> d) :
     r \in MockRoleArgs, f \in MockFilters, b \in Flags, d \in Flags}
MockDetailArgs ==
  {Obj("account_number" :> a @@ "roles" :> r) :
     a \in {Str("ACC-10001"), Str("GUEST-001")}, r \in MockRoleArgs}

MockIdle ==
  [served |-> 0, data |-> MOCK_ACCOUNTS, name |-> "", args |-> EmptyObj, text |-> Null]

\* One request served by the process: the handler runs on the data the
\* earlier requests left behind.
MockServed(name, args) ==
  LET a == MockCallTool(name, args, mock.data)
  IN  [served |-> mock.served + 1, data |-> a.data, name |-> name, args |-> args,
       text |-> a.text]

MockServeQueryAccounts ==
  /\ mock.served < MaxRequests
  /\ UNCHANGED <<procs, call, facade, denodo, demux, agent>>
  /\ \E args \in MockAccountsArgs :
       mock' = MockServed("query_accounts_by_roles", args)

MockServeDetail ==
  /\ mock.served < MaxRequests
  /\ UNCHANGED <<procs, call, facade, denodo, demux, agent>>
  /\ \E args \in MockDetailArgs :
       mock' = MockServed("get_account_detail", args)

(***************************************************************************)
(* The agent graph of graph.py (create_agent_graph): agent holds the node  *)
(* that runs next, the messages of the state and the nodes that have run.  *)
(* START, END and the two nodes are the graph's; "raised" is a run that    *)
(* the model call ended with an exception.                                 *)
(***************************************************************************)
MaxTurns == 4
MaxToolCalls == 2
HumanMessage == [type |-> "human", tool_calls |-> << >>]
AIMessage(n) == [type |-> "ai", tool_calls |-> [i \in 1..n |-> i]]
ToolMessage(id) == [type |-> "tool", tool_calls |-> << >>, tool_call_id |-> id]
\* The messages a run is invoked with.
InputMessages ==
  {<<HumanMessage>>, <<HumanMessage, AIMessage(0), HumanMessage>>}

AgentIdle == [node |-> "START", messages |-> << >>, ran |-> << >>]

\* A should_continue that goes to the tools when there is no tool call.
ShouldContinueInverted(messages) ==
  LET last_message == messages[Len(messages)]
  IN  IF last_message.tool_calls = << >> THEN "tools" ELSE "END"

\* should_continue: END when the last message has no tool calls, else tools.
ShouldContinue(messages) ==
  LET last_message == messages[Len(messages)]
  IN  IF last_message.tool_calls = << >> THEN "END" ELSE "tools"

TurnsOf(a) == Len(SelectSeq(a.ran, LAMBDA n : n = "agent"))

\* graph.invoke(input); workflow.add_edge(START, "agent")
StartRun ==
  /\ agent.node = "START"
  /\ UNCHANGED <<procs, call, facade, denodo, demux, mock>>
  /\ \E input \in InputMessages :
       agent' = [agent EXCEPT !.node = "agent", !.messages = input]

\* The agent node: call_model appends the model's response, then the
\* conditional edge asks should_continue where to go.
RunAgent ==
  /\ agent.node = "agent"
  /\ TurnsOf(agent) < MaxTurns
  /\ UNCHANGED <<procs, call, facade, denodo, demux, mock>>
  /\ \E n \in 0..MaxToolCalls :
       LET messages == Append(agent.messages, AIMessage(n))
       IN  agent' = [node |-> ShouldContinue(messages), messages |-> messages,
                     ran |-> Append(agent.ran, "agent")]

\* The agent node when model_with_tools.invoke raises: the run ends with
\* the exception.
RunAgentRaises ==
  /\ agent.node = "agent"
  /\ TurnsOf(agent) < MaxTurns
  /\ UNCHANGED <<procs, call, facade, denodo, demux, mock>>
  /\ agent' = [agent EXCEPT !.node = "raised", !.ran = Append(agent.ran, "agent")]

\* The tools node: ToolNode appends one tool message for each tool call of
\* the last message; workflow.add_edge("tools", "agent")
RunTools ==
  /\ agent.node = "tools"
  /\ UNCHANGED <<procs, call, facade, denodo, demux, mock>>
  /\ LET calls == agent.messages[Len(agent.messages)].tool_calls
     IN  agent' = [node |-> "agent",
                   messages |-> agent.messages \o [i \in 1..Len(calls) |-> ToolMessage(calls[i])],
                   ran |-> Append(agent.ran, "tools")]

(***************************************************************************)
(* Specifications: one call of the bridge; the facades; the data worker.   *)
(***************************************************************************)
vars == <<procs, call, facade, denodo, demux, mock, agent>>

Init ==
  /\ BridgeInit
  /\ facade = FacadeIdle
  /\ denodo = DenodoIdle
  /\ demux = DemuxIdle
  /\ mock = MockIdle
  /\ agent = AgentIdle

Next ==
  \/ \E c \in Calls : CallStep(c)
  \/ \E p \in 1..Len(procs) : WorkerExit(p)

Spec == Init /\ [][Next]_vars

FacadeNext ==
  \/ CallCheckUserEntitlement
  \/ CallQueryAccountsByRoles
  \/ CallGetAccountSummary
  \/ CallGetAccountDetail

SpecFacade == Init /\ [][FacadeNext]_vars

\* The steps of a call from the close of the worker's stdin to the return:
\* none of them waits for the worker without a bound (the wait after
\* terminate() has a timeout, the wait after kill() is on a dead process), so
\* a call that can take one of them eventually does.
Finish(c) ==
  \/ CloseStdin(c) \/ Terminate(c)
  \/ WaitOk(c) \/ WaitTimeout(c) \/ KillAfterTimeout(c) \/ WaitAfterKill(c)
  \/ ReadStderrOk(c) \/ ReadStderrRaises(c)
  \/ ParseOuter(c) \/ ParseInner(c)
  \/ ExcKill(c) \/ ExcWait(c)

SpecLive == Init /\ [][Next]_vars /\ \A c \in Calls : WF_vars(Finish(c))

\* Two invocations of call_mcp_tool that may overlap in any way (two turns
\* of the agent, or one after the other), against workers that answer the
\* handshake, answer the tool request, or print nothing more.
TwoCalls == {"c1", "c2"}
FewLines == {EofLine, InitLine, AnswerLine(JsonDumps(Null))}

ReadLineFew(c) == ReadLine(c, FewLines)

CallStepFew(c) ==
  \/ PopenOk(c) \/ PopenFails(c)
  \/ WriteOk(c) \/ WriteRaises(c)
  \/ ReadLineFew(c) \/ ReadLineRaises(c)
  \/ CloseStdin(c) \/ Terminate(c)
  \/ WaitOk(c) \/ WaitTimeout(c) \/ KillAfterTimeout(c) \/ WaitAfterKill(c)
  \/ ReadStderrOk(c) \/ ReadStderrRaises(c)
  \/ ParseOuter(c) \/ ParseInner(c)
  \/ ExcKill(c) \/ ExcWait(c)

InitTwo ==
  /\ procs = << >>
  /\ call = [c \in TwoCalls |-> IdleCall]
  /\ facade = FacadeIdle
  /\ denodo = DenodoIdle
  /\ demux = DemuxIdle
  /\ mock = MockIdle
  /\ agent = AgentIdle

NextTwo ==
  \/ \E c \in TwoCalls : CallStepFew(c)
  \/ \E p \in 1..Len(procs) : WorkerExit(p)

SpecTwo == InitTwo /\ [][NextTwo]_vars

DenodoNext ==
  \/ ServeQueryAccounts
  \/ ServeSummary
  \/ ServeDetail
  \/ ServeCustom
  \/ ServeUnknown

SpecDenodo == Init /\ [][DenodoNext]_vars

DemuxNext ==
  \/ DemuxGraph
  \/ DemuxGraphNew

SpecDemux == Init /\ [][DemuxNext]_vars

MockNext ==
  \/ MockServeQueryAccounts
  \/ MockServeDetail

SpecMock == Init /\ [][MockNext]_vars

AgentNext ==
  \/ StartRun
  \/ RunAgent
  \/ RunAgentRaises
  \/ RunTools

SpecAgent == Init /\ [][AgentNext]_vars

(***************************************************************************)
(* Properties of call_mcp_tool (specification Spec).                       *)
(***************************************************************************)
Returned(c) == call[c].pc = "done"
Spawned(c) == call[c].pid # 0
Logged(c, ops) == \E i \in 1..Len(call[c].log) : call[c].log[i] \in ops
ClosedBefore(c, i) == \E j \in 1..(i - 1) : call[c].log[j] = "close"
PipeOps(c) == SelectSeq(call[c].log, LAMBDA op : op \in {"W0", "R0", "W1", "R1"})
IsPrefix(s, t) == Len(s) <= Len(t) /\ SubSeq(t, 1, Len(s)) = s

\* The state machine and BridgeReturn agree: what a call returned is what
\* BridgeReturn gives for the way the call went.
BridgeAgreesWithReturn ==
  \A c \in Calls :
    Returned(c) /\ Spawned(c) =>
      LET r == call[c].raised
          beh == IF \E i \in 1..Len(r) : r[i].step \in {"write", "read", "stderr"}
                 THEN PipeRaised(call[c].exc)
                 ELSE Exchange(call[c].lines[1], call[c].lines[2])
      IN  call[c].ret = BridgeReturn(call[c].impl, beh)

\* C1: whenever call_mcp_tool has returned after spawning a worker, with a
\* payload or with an error, that worker has exited and has been reaped.
C1_NoProcessOutlivesItsCall ==
  \A c \in Calls : Returned(c) /\ Spawned(c) => ProcOf(c) = "reaped"

\* The call returned through the exception handler and its worker is reaped.
C1_Witness ==
  /\ Returned("c1") /\ Spawned("c1")
  /\ call["c1"].exc = "BrokenPipeError"
  /\ ProcOf("c1") = "reaped"

\* C2 as stated: on every path, the one where a write or read raised
\* included, stdin is closed before terminate() or kill(), and one of the
\* two is issued before the call returns.
C2_StdinClosedBeforeEverySignal ==
  \A c \in Calls :
    /\ \A i \in 1..Len(call[c].log) :
         call[c].log[i] \in {"terminate", "kill"} => ClosedBefore(c, i)
    /\ Returned(c) /\ Spawned(c) => Logged(c, {"terminate", "kill"})

\* C2, amended: stdin is closed before terminate() and before the kill()
\* that follows a wait timeout; only the exception handler kills a worker
\* whose stdin was never closed, and then stdin is still open at the return;
\* terminate() or kill() is issued before every return of a call that
\* spawned a worker.
C2_StdinClosedBeforeTerminate ==
  \A c \in Calls :
    /\ \A i \in 1..Len(call[c].log) :
         /\ call[c].log[i] = "terminate" => ClosedBefore(c, i)
         /\ call[c].log[i] = "kill" /\ ~ClosedBefore(c, i)
              => call[c].exc # "" /\ call[c].stdin = "open"
    /\ Returned(c) /\ Spawned(c) => Logged(c, {"terminate", "kill"})
    /\ Returned(c) /\ Spawned(c) /\ call[c].exc = "" =>
         Logged(c, {"close"}) /\ call[c].stdin = "closed"

\* A read raised: the worker was killed and stdin was never closed.
C2_Witness ==
  /\ Returned("c1") /\ Spawned("c1")
  /\ call["c1"].raised = <<Raised("read", "UnicodeDecodeError")>>
  /\ Logged("c1", {"kill"}) /\ ~Logged("c1", {"close"})

\* C3 as stated: every call that spawned a worker performs exactly the
\* exchange initialize, read, tools/call, read.
C3_ExactlyTheFullExchange ==
  \A c \in Calls :
    /\ IsPrefix(PipeOps(c), FullExchange)
    /\ Returned(c) /\ Spawned(c) => PipeOps(c) = FullExchange

\* C3, amended: the operations on the pipes are always an initial part of
\* initialize, read, tools/call, read (so the tool request never precedes
\* the handshake read and nothing is written after it); the exchange is
\* complete in every call in which no write and no read raised.
C3_ExchangeOrder ==
  \A c \in Calls :
    /\ IsPrefix(PipeOps(c), FullExchange)
    /\ Returned(c) /\ Spawned(c) /\ PipeOps(c) # FullExchange =>
         /\ Len(call[c].raised) = 1
         /\ call[c].raised[1].step \in {"write", "read"}
    /\ Returned(c) /\ Spawned(c) /\ call[c].raised = << >> => PipeOps(c) = FullExchange

\* The worker went away after the handshake: the second write raised.
C3_Witness ==
  /\ Returned("c1")
  /\ PipeOps("c1") = <<"W0", "R0">>
  /\ call["c1"].raised = <<Raised("write", "BrokenPipeError")>>

\* The steps of the exchange and of the teardown that follows it.
ExchangeSteps == {"write", "read", "stderr"}
TeardownSteps == ExchangeSteps \cup {"wait"}
KilledAndReaped(c) == Logged(c, {"kill"}) /\ ProcOf(c) = "reaped"

\* C4 as stated: whichever write, read or teardown step raised, the worker
\* is killed and reaped and the call returns the communication error.
C4_EveryRaiseIsCommunicationError ==
  \A c \in Calls :
    Returned(c) =>
      /\ call[c].ret # NoRet
      /\ \A i \in 1..Len(call[c].raised) :
           call[c].raised[i].step \in TeardownSteps =>
             /\ KilledAndReaped(c)
             /\ \E j \in 1..Len(call[c].raised) :
                  call[c].ret = CommunicationError(call[c].raised[j].e)

\* C4, amended: an exception of a write, a read or the stderr read is caught,
\* the worker is killed and reaped and the call returns the communication
\* error that names it; the TimeoutExpired of wait(timeout=2) is caught too
\* and the worker is killed and reaped, but the call then goes on to parse
\* what it read; every call returns a value.
C4_RaiseIsCaught ==
  \A c \in Calls :
    Returned(c) =>
      /\ call[c].ret # NoRet
      /\ \A i \in 1..Len(call[c].raised) :
           /\ call[c].raised[i].step \in TeardownSteps => KilledAndReaped(c)
           /\ call[c].raised[i].step \in ExchangeSteps =>
                call[c].ret = CommunicationError(call[c].raised[i].e)

\* A write raised and the call returned the communication error.
C4_Witness ==
  /\ Returned("c1")
  /\ call["c1"].raised = <<Raised("write", "BrokenPipeError")>>
  /\ call["c1"].ret = CommunicationError("BrokenPipeError")
  /\ KilledAndReaped("c1")

(***************************************************************************)
(* Properties of the facades (specification SpecFacade).                   *)
(***************************************************************************)
FacadeReturned == facade.tool # "" /\ facade.out.k = "ret"
\* The keys and values of the envelope a facade returned.
EnvelopeOf(out) == out.v.enc.m

C6_ExactlyOneOfSuccessAndError ==
  FacadeReturned =>
    LET e == EnvelopeOf(facade.out)
    IN  /\ ("success" \in DOMAIN e) # ("error" \in DOMAIN e)
        /\ "success" \in DOMAIN e => e["success"] = Bool(TRUE)

\* The worker's own answer carried an error and the facade returned the
\* error envelope for it.
C6_Witness ==
  /\ FacadeReturned /\ facade.called
  /\ facade.tool = "get_account_detail"
  /\ facade.env.kind = "worker"
  /\ "error" \in DOMAIN EnvelopeOf(facade.out)
  /\ "success" \notin DOMAIN EnvelopeOf(facade.out)

\* The mock's accounts with one account number taken out.
MockWithout(data, number) ==
  [r \in DOMAIN data |-> SelectSeq(data[r], LAMBDA a : a.m["account_number"] # number)]
\* The roles an account number is filed under.
RolesEntitledTo(data, number) ==
  {r \in DOMAIN data : \E i \in 1..Len(data[r]) : data[r][i].m["account_number"] = number}
RolesHeld(roles) == {roles.items[i].s : i \in 1..Len(roles.items)}
\* What get_account_detail of graph_new.py hands back over the mock's data.
DetailOver(data, args) ==
  DetailEnvelope(args.m["account_number"],
    BridgeReturn("graph_new",
      WorkerExchange(MockCallTool("get_account_detail",
        BridgeArguments("get_account_detail", "graph_new", args), data).text)))

\* C9: for an account that exists but is entitled only to roles the caller
\* does not hold, get_account_detail returns the envelope it returns for the
\* same request when the account does not exist.
C9_NotFoundLikeNotAuthorised ==
  /\ facade.tool = "get_account_detail"
  /\ facade.impl = "graph_new"
  /\ facade.env.kind = "worker"
  /\ RolesEntitledTo(MOCK_ACCOUNTS, facade.args.m["account_number"]) # {}
  /\ RolesEntitledTo(MOCK_ACCOUNTS, facade.args.m["account_number"])
       \cap RolesHeld(facade.args.m["roles"]) = {}
  => /\ facade.out = DetailOver(MOCK_ACCOUNTS, facade.args)
     /\ facade.out = DetailOver(MockWithout(MOCK_ACCOUNTS, facade.args.m["account_number"]),
                                facade.args)

\* C10: when the bridge returned an error mapping to get_account_detail, the
\* envelope carries that error, echoes the account number and has
\* access_denied true.
C10_DetailErrorEnvelope ==
  /\ facade.tool = "get_account_detail"
  /\ facade.called
  /\ facade.result.t = "obj"
  /\ "error" \in DOMAIN facade.result.m
  => facade.out = Envelope("error" :> facade.result.m["error"]
                           @@ "account_number" :> facade.args.m["account_number"]
                           @@ "access_denied" :> Bool(TRUE))

\* Denodo returns no row for account ACC-999 and roles [Admin].
C10_Witness ==
  /\ facade.tool = "get_account_detail"
  /\ facade.impl = "graph"
  /\ facade.args = Obj("account_number" :> Str("ACC-999")
                       @@ "roles" :> List(<<Str("Admin")>>))
  /\ facade.env = AsCoded(Ret(Obj("elements" :> List(<< >>))))
  /\ facade.out = Envelope("error" :> Str("Account not found or access denied based on roles")
                           @@ "account_number" :> Str("ACC-999")
                           @@ "access_denied" :> Bool(TRUE))

(***************************************************************************)
(* Properties of the data worker (specification SpecDenodo).               *)
(***************************************************************************)
RequestRoles == Get(denodo.args, "roles", List(<< >>))
\* The query has a predicate on the entitlement roles for every role of the
\* request, and the request has a role.
HasRoleFilter(q, roles) ==
  /\ roles.t = "list"
  /\ roles.items # << >>
  /\ \A i \in 1..Len(roles.items) :
       \E k \in 1..Len(q) :
         /\ q[k].tok = "cond"
         /\ q[k].op = "LIKE"
         /\ q[k].col \in {"entitlement_roles", "r1.entitlement_roles"}
         /\ q[k].val = roles.items[i]
AnswersError == denodo.text.enc.t = "obj" /\ "error" \in DOMAIN denodo.text.enc.m

\* C7: every query the data worker hands to execute_denodo_query, for any
\* tool and any arguments, has a role-match predicate over the roles of the
\* request.
C7_EveryQueryFiltersByRole ==
  \A i \in 1..Len(denodo.queries) : HasRoleFilter(denodo.queries[i], RequestRoles)

\* C8: a list, summary or detail request with an empty role list is answered
\* with an error, and no query is compiled or executed for it.
C8_EmptyRolesRejected ==
  /\ denodo.name \in {"query_accounts_by_roles", "get_account_summary", "get_account_detail"}
  /\ PyNot(RequestRoles)
  => denodo.queries = << >> /\ AnswersError

(***************************************************************************)
(* More properties of the data worker (specification SpecDenodo).          *)
(***************************************************************************)
\* The piece tok occurs in the query q.
HasPiece(q, tok) == \E i \in 1..Len(q) : q[i] = tok
\* The include_details / include_balance arguments of the request, with the
\* defaults of call_tool.
WantsDetails == Truthy(Get(denodo.args, "include_details", Bool(TRUE)))
WantsBalance == Truthy(Get(denodo.args, "include_balance", Bool(TRUE)))
\* A list request with a non-empty role list was served.
ListedForRoles == denodo.name = "query_accounts_by_roles" /\ Truthy(RequestRoles)

\* C20: for every non-empty role list, the query built for a list request
\* contains the INNER JOIN on the details view exactly when include_details
\* is set, and the INNER JOIN on the balance view exactly when
\* include_balance is set.
C20_JoinsFollowFlags ==
  ListedForRoles =>
    /\ Len(denodo.queries) = 1
    /\ \A i \in 1..Len(denodo.queries) :
         /\ HasPiece(denodo.queries[i], JoinDetails) <=> WantsDetails
         /\ HasPiece(denodo.queries[i], JoinBalance) <=> WantsBalance

\* A list request for two roles without details and with balances was built
\* with the balance join alone.
C20_Witness ==
  /\ ListedForRoles
  /\ PyLen(RequestRoles) = 2
  /\ ~WantsDetails /\ WantsBalance
  /\ Len(denodo.queries) = 1
  /\ HasPiece(denodo.queries[1], JoinBalance)
  /\ ~HasPiece(denodo.queries[1], JoinDetails)

\* The columns of the details view (r2) and of the balance view (r3) that the
\* builders name, in a select field or in a predicate.
DetailsColumns ==
  {"r2.client_name", "r2.account_type", "r2.open_date", "r2.branch_code",
   "COUNT(DISTINCT r2.client_name) as total_clients"}
BalanceColumns ==
  {"r3.balance", "r3.currency", "r3.last_updated", "SUM(r3.balance) as total_balance"}
\* The query q names a column of cols in its SELECT list or in a predicate.
RefersTo(q, cols) ==
  \E i \in 1..Len(q) : q[i].tok \in {"field", "cond"} /\ q[i].col \in cols
\* Every field of the group is a piece of q.
SelectsAll(q, group) == \A i \in 1..Len(group) : HasPiece(q, group[i])
\* The request was served by one of the three query builders.
BuiltByBuilder ==
  denodo.name \in {"query_accounts_by_roles", "get_account_summary", "get_account_detail"}

\* C21: in every query of the three builders a column of the details view
\* or of the balance view is named, in the SELECT list or in a predicate,
\* only if the join on that view is present, and in the query of
\* build_accounts_query a join is present only if its field group is
\* selected.
C21_FieldsOnlyWithTheirJoin ==
  BuiltByBuilder =>
    \A i \in 1..Len(denodo.queries) :
      LET q == denodo.queries[i]
      IN  /\ RefersTo(q, DetailsColumns) => HasPiece(q, JoinDetails)
          /\ RefersTo(q, BalanceColumns) => HasPiece(q, JoinBalance)
          /\ denodo.name = "query_accounts_by_roles" =>
               /\ HasPiece(q, JoinDetails) => SelectsAll(q, DetailFields)
               /\ HasPiece(q, JoinBalance) => SelectsAll(q, BalanceFields)

\* A list request without details whose filters ask for an account type and
\* a balance bound: the query has the balance join and bound, and names no
\* column of the details view.
C21_Witness ==
  /\ ListedForRoles
  /\ ~WantsDetails /\ WantsBalance
  /\ Truthy(Get(denodo.args, "filters", EmptyObj))
  /\ {"account_type", "min_balance"} \subseteq DOMAIN Get(denodo.args, "filters", EmptyObj).m
  /\ Len(denodo.queries) = 1
  /\ RefersTo(denodo.queries[1], BalanceColumns)
  /\ ~RefersTo(denodo.queries[1], DetailsColumns)

\* The filters argument of the request, and whether it supplies key.
RequestFilters == Get(denodo.args, "filters", EmptyObj)
Supplies(key) == Truthy(RequestFilters) /\ Truthy(Get(RequestFilters, key, Null))
\* The number of pieces of q that are the predicate `col op value-of-key`.
PredicateCount(q, col, op, key) ==
  Cardinality({i \in 1..Len(q) : q[i] = Cond(col, op, RequestFilters.m[key])})

\* C22: when the filters of a list request contain min_balance, the query
\* has the balance lower bound only when include_balance is set (and then
\* once); when it is not set the bound is left out and the query is built
\* and executed all the same.
C22_BalanceBoundNeedsBalance ==
  ListedForRoles /\ Supplies("min_balance") =>
    /\ Len(denodo.queries) = 1
    /\ \A i \in 1..Len(denodo.queries) :
         /\ PredicateCount(denodo.queries[i], "r3.balance", ">=", "min_balance")
              = (IF WantsBalance THEN 1 ELSE 0)
         /\ ~WantsBalance => ~RefersTo(denodo.queries[i], {"r3.balance"})

\* A list request with min_balance and without balances was answered with
\* accounts, from a query without the bound.
C22_Witness ==
  /\ ListedForRoles /\ Supplies("min_balance") /\ ~WantsBalance
  /\ Len(denodo.queries) = 1
  /\ ~RefersTo(denodo.queries[1], {"r3.balance"})
  /\ ~AnswersError

\* The role-match pieces of the query q, in order.
RoleDisjuncts(q) == SelectSeq(q, LAMBDA p : p.tok = "cond" /\ p.op = "LIKE")
\* The roles of the request are k >= 1 and a builder made a query for them.
BuiltForRoles ==
  /\ BuiltByBuilder
  /\ RequestRoles.t = "list" /\ Len(RequestRoles.items) >= 1
  /\ denodo.queries # << >>

\* C23 as stated: for a list of k >= 1 roles the role-match clause of each
\* builder has exactly k disjuncts and no two disjuncts name the same role.
C23_DistinctRoleDisjuncts ==
  BuiltForRoles =>
    \A i \in 1..Len(denodo.queries) :
      LET ds == RoleDisjuncts(denodo.queries[i])
      IN  /\ Len(ds) = Len(RequestRoles.items)
          /\ \A j, k \in 1..Len(ds) : j # k => ds[j].val # ds[k].val

\* C23, amended: for a list of k >= 1 roles the role-match clause of each
\* builder has exactly k disjuncts, the j-th naming the j-th role of the
\* list, joined by k - 1 ORs; two disjuncts name the same role exactly when
\* the list repeats it.
C23_OneDisjunctPerListElement ==
  BuiltForRoles =>
    \A i \in 1..Len(denodo.queries) :
      LET ds == RoleDisjuncts(denodo.queries[i])
      IN  /\ Len(ds) = Len(RequestRoles.items)
          /\ \A j \in 1..Len(ds) : ds[j].val = RequestRoles.items[j]
          /\ Cardinality({j \in 1..Len(denodo.queries[i]) :
                            denodo.queries[i][j] = Kw("OR")}) = Len(ds) - 1

\* A summary was built for two different roles.
C23_Witness ==
  /\ denodo.name = "get_account_summary"
  /\ BuiltForRoles
  /\ Len(RequestRoles.items) = 2
  /\ RequestRoles.items[1] # RequestRoles.items[2]
  /\ Len(RoleDisjuncts(denodo.queries[1])) = 2

\* C24 as stated: the query of a list request has one exact-match predicate
\* for each of account_number, account_status and account_type that the
\* filters supply, whatever the include flags are.
C24_ExactMatchForEveryFlag ==
  ListedForRoles =>
    \A i \in 1..Len(denodo.queries) :
      /\ Supplies("account_number") =>
           PredicateCount(denodo.queries[i], "r1.account_number", "=", "account_number") = 1
      /\ Supplies("account_status") =>
           PredicateCount(denodo.queries[i], "r1.account_status", "=", "account_status") = 1
      /\ Supplies("account_type") =>
           PredicateCount(denodo.queries[i], "r2.account_type", "=", "account_type") = 1

\* C24, amended: the query has one exact-match predicate for each of
\* account_number and account_status that the filters supply, whatever the
\* include flags are; the account_type predicate is there exactly when the
\* filters supply it and include_details is set.
C24_ExactMatchPredicates ==
  ListedForRoles =>
    \A i \in 1..Len(denodo.queries) :
      /\ Supplies("account_number") =>
           PredicateCount(denodo.queries[i], "r1.account_number", "=", "account_number") = 1
      /\ Supplies("account_status") =>
           PredicateCount(denodo.queries[i], "r1.account_status", "=", "account_status") = 1
      /\ Supplies("account_type") =>
           PredicateCount(denodo.queries[i], "r2.account_type", "=", "account_type")
             = (IF WantsDetails THEN 1 ELSE 0)
      /\ ~Supplies("account_type") =>
           ~RefersTo(SelectSeq(denodo.queries[i], LAMBDA p : p.tok = "cond"),
                     {"r2.account_type"})

\* A list request without details and without balances whose filters supply
\* status and type: the status predicate is there, the type predicate not.
C24_Witness ==
  /\ ListedForRoles /\ ~WantsDetails /\ ~WantsBalance
  /\ Supplies("account_status") /\ Supplies("account_type")
  /\ Len(denodo.queries) = 1
  /\ PredicateCount(denodo.queries[1], "r1.account_status", "=", "account_status") = 1
  /\ PredicateCount(denodo.queries[1], "r2.account_type", "=", "account_type") = 0

(***************************************************************************)
(* More properties of the facades (specification SpecFacade).              *)
(***************************************************************************)
UsernameRequired(withUsername) ==
  IF withUsername
  THEN Envelope("error" :> Str("Username is required") @@ "username" :> Null)
  ELSE Envelope("error" :> Str("Username is required"))
\* The username handed to check_user_entitlement is missing or empty.
NoUsername ==
  /\ facade.tool = "check_user_entitlement"
  /\ \/ "username" \notin DOMAIN facade.args.m
     \/ facade.args.m["username"] \in {Null, Str("")}

\* C11 as stated: with an empty or missing username the facade returns
\* {error: "Username is required", username: null} and the bridge is not
\* called, so no worker is spawned.
C11_NoUsernameIsRejected ==
  NoUsername => ~facade.called /\ facade.out = UsernameRequired(TRUE)

\* C11, amended: graph.py returns {error: "Username is required",
\* username: null} without calling the bridge; graph_new.py takes the
\* username from the agent state, returns {error: "Username is required"}
\* with no username key and without calling the bridge when it is empty,
\* and calls the bridge with the username "unknown" when the state has none.
C11_NoUsernamePerImplementation ==
  NoUsername =>
    /\ facade.impl = "graph" =>
         ~facade.called /\ facade.out = UsernameRequired(TRUE)
    /\ facade.impl = "graph_new" /\ "username" \in DOMAIN facade.args.m =>
         ~facade.called /\ facade.out = UsernameRequired(FALSE)
    /\ facade.impl = "graph_new" /\ "username" \notin DOMAIN facade.args.m =>
         /\ facade.called
         /\ facade.out.k = "ret"
              => "username" \in DOMAIN EnvelopeOf(facade.out)
                 /\ EnvelopeOf(facade.out)["username"] = Str("unknown")

\* checkEntitlement(""): the error envelope, and the bridge was not called.
C11_Witness ==
  /\ facade.tool = "check_user_entitlement"
  /\ facade.impl = "graph"
  /\ facade.args = Obj("username" :> Str(""))
  /\ ~facade.called
  /\ facade.out = UsernameRequired(TRUE)

\* The key under which a facade echoes its input, and the input.
EchoKey ==
  CASE facade.tool = "check_user_entitlement" -> "username"
    [] facade.tool = "get_account_detail" -> "account_number"
    [] OTHER -> "roles"
EchoedInput ==
  CASE facade.tool = "check_user_entitlement" -> UsernameOf(facade.impl, facade.args)
    [] facade.tool = "get_account_detail" -> facade.args.m["account_number"]
    [] OTHER -> facade.args.m["roles"]
ErrorEnvelope == FacadeReturned /\ "error" \in DOMAIN EnvelopeOf(facade.out)
EchoesInput ==
  /\ EchoKey \in DOMAIN EnvelopeOf(facade.out)
  /\ facade.called => EnvelopeOf(facade.out)[EchoKey] = EchoedInput
PassesReasonThrough ==
  facade.called => EnvelopeOf(facade.out)["error"] = facade.result.m["error"]

\* C12 as stated: every error envelope carries the echoed input of its
\* request, next to the bridge's error reason passed through unchanged.
C12_EveryErrorEchoesInput ==
  ErrorEnvelope => EchoesInput /\ PassesReasonThrough

\* C12, amended: every error envelope made from a bridge error carries the
\* echoed input (username, roles, account number) next to the unchanged
\* reason; the envelope for a missing username carries username null in
\* graph.py and no username key in graph_new.py.
C12_ErrorEchoesInputWhenCalled ==
  ErrorEnvelope =>
    /\ PassesReasonThrough
    /\ facade.called => EchoesInput
    /\ ~facade.called => facade.out = UsernameRequired(facade.impl = "graph")

\* The worker answered a remote error and the facade passed it on with the
\* roles of the request.
C12_Witness ==
  /\ ErrorEnvelope /\ facade.called
  /\ facade.tool = "query_accounts_by_roles"
  /\ facade.result = Err(Fmt("MCP error: ", Str("boom")))
  /\ EnvelopeOf(facade.out)["roles"] = facade.args.m["roles"]
  /\ EnvelopeOf(facade.out)["error"] = Fmt("MCP error: ", Str("boom"))

\* The rows of the mock's data, and those filed under a role of the list.
MockRows(data) == UNION {{<<r, i>> : i \in 1..Len(data[r])} : r \in DOMAIN data}
RowRoles(data, ref) ==
  {Deref(data, ref).m["entitlement_roles"].items[i].s :
     i \in 1..Len(Deref(data, ref).m["entitlement_roles"].items)}
RoleMatchingRows(data, roles) ==
  {ref \in MockRows(data) : RowRoles(data, ref) \cap RolesHeld(roles) # {}}
\* How many of the rows have a balance of at least bound.
AtLeast(data, rows, bound) ==
  Cardinality({ref \in rows : Deref(data, ref).m["balance"].n >= bound.n})
\* The rows filed under the role name, and their number over the elements
\* of a role list (a row counts once for every element that names its role).
RowsOfRole(data, name) == {ref \in MockRows(data) : ref[1] = name}
AtLeastPerElement(data, roles, bound) ==
  LET RECURSIVE Count(_)
      Count(i) == IF i > Len(roles.items) THEN 0
                  ELSE (IF IsMockRole(data, roles.items[i])
                        THEN AtLeast(data, RowsOfRole(data, roles.items[i].s), bound)
                        ELSE 0) + Count(i + 1)
  IN  Count(1)
NoRoleTwice(roles) ==
  \A i, j \in 1..Len(roles.items) : i # j => roles.items[i] # roles.items[j]

\* query_accounts_by_roles of graph_new.py was answered by the mock worker
\* for filters that hold min_balance.
ListedWithMinBalance ==
  /\ facade.tool = "query_accounts_by_roles"
  /\ facade.impl = "graph_new"
  /\ facade.env.kind = "worker"
  /\ Truthy(facade.args.m["filters"])
  /\ "min_balance" \in DOMAIN facade.args.m["filters"].m
MinBalanceAlone == DOMAIN facade.args.m["filters"].m = {"min_balance"}
TotalCount == EnvelopeOf(facade.out)["total_count"].n
ListedAccounts == EnvelopeOf(facade.out)["accounts"].items

\* C28 as stated: with a min_balance filter the envelope's total_count is
\* the number of accounts in the envelope and the number of the worker's
\* role-matching rows whose balance is at least min_balance.
C28_TotalCountIsMatchingRows ==
  ListedWithMinBalance =>
    /\ FacadeReturned
    /\ TotalCount = Len(ListedAccounts)
    /\ TotalCount = AtLeast(MOCK_ACCOUNTS,
                            RoleMatchingRows(MOCK_ACCOUNTS, facade.args.m["roles"]),
                            facade.args.m["filters"].m["min_balance"])

\* C28, amended: total_count is the number of accounts in the envelope;
\* with min_balance as the only filter it is the number of rows with a
\* balance of at least min_balance, counted once for every element of the
\* role list that names the row's role, or among the Guest rows when no
\* element names a known role; it is the number of role-matching rows with
\* such a balance when the list names a known role and repeats none.
C28_TotalCountOfCollectedRows ==
  ListedWithMinBalance =>
    LET roles == facade.args.m["roles"]
        bound == facade.args.m["filters"].m["min_balance"]
        known == RolesHeld(roles) \cap DOMAIN MOCK_ACCOUNTS # {}
    IN  /\ FacadeReturned
        /\ TotalCount = Len(ListedAccounts)
        /\ MinBalanceAlone /\ known =>
             TotalCount = AtLeastPerElement(MOCK_ACCOUNTS, roles, bound)
        /\ MinBalanceAlone /\ ~known =>
             TotalCount = AtLeast(MOCK_ACCOUNTS, RowsOfRole(MOCK_ACCOUNTS, "Guest"), bound)
        /\ MinBalanceAlone /\ known /\ NoRoleTwice(roles) =>
             TotalCount = AtLeast(MOCK_ACCOUNTS, RoleMatchingRows(MOCK_ACCOUNTS, roles), bound)

\* The Manager rows are two, one of them with a balance of exactly 22000:
\* with min_balance 22000 the envelope reports one account.
C28_Witness ==
  /\ ListedWithMinBalance /\ FacadeReturned
  /\ facade.args.m["roles"] = List(<<Str("Manager")>>)
  /\ facade.args.m["filters"] = Obj("min_balance" :> Money(22000, 0))
  /\ Cardinality(RoleMatchingRows(MOCK_ACCOUNTS, facade.args.m["roles"])) = 2
  /\ TotalCount = 1
  /\ Len(ListedAccounts) = 1

\* query_accounts_by_roles or get_account_detail of graph_new.py was
\* answered by the mock worker: the accounts of the worker's payload.
AnsweredByMock ==
  /\ facade.tool \in {"query_accounts_by_roles", "get_account_detail"}
  /\ facade.impl = "graph_new"
  /\ facade.env.kind = "worker"
  /\ facade.called
PayloadAccounts ==
  IF facade.result.t # "obj" THEN << >>
  ELSE IF "accounts" \in DOMAIN facade.result.m THEN facade.result.m["accounts"].items
  ELSE IF "account" \in DOMAIN facade.result.m THEN <<facade.result.m["account"]>>
  ELSE << >>
AccountRoles(account) ==
  {account.m["entitlement_roles"].items[i].s :
     i \in 1..Len(account.m["entitlement_roles"].items)}

\* C29: every account the mock worker returns for a list or detail request
\* is entitled to a role of the request; a request whose roles match no
\* known role, or whose role list is empty, receives no account.
C29_AccountsScopedToRoles ==
  AnsweredByMock =>
    /\ \A i \in 1..Len(PayloadAccounts) :
         AccountRoles(PayloadAccounts[i]) \cap RolesHeld(facade.args.m["roles"]) # {}
    /\ RolesHeld(facade.args.m["roles"]) \cap DOMAIN MOCK_ACCOUNTS = {}
         => PayloadAccounts = << >>

(***************************************************************************)
(* Properties of the response handling of call_mcp_tool (Spec).            *)
(***************************************************************************)
EmptyResponse == Err(Str("MCP server returned empty response"))
NoValidResponses == Err(Str("No valid responses from MCP server"))
NoToolResponse == Err(Str("No tool response from MCP server"))
NoResult == Err(Str("No result from MCP server"))
MissingContent == Err(Str("MCP result missing content"))

\* The call returned after both reads, and no write, read or stderr read
\* raised on the way.
Exchanged(c) ==
  /\ Returned(c) /\ Len(call[c].lines) = 2
  /\ \A i \in 1..Len(call[c].raised) : call[c].raised[i].step \notin ExchangeSteps
\* The value is an error mapping, and no payload of a worker.
IsBridgeError(ret) ==
  /\ ret.t = "obj" /\ "error" \in DOMAIN ret.m
  /\ ret \notin BridgePayloads

\* C13 as stated, no response line being a handshake read that gives
\* nothing, '' or white space: the call returns an error and no payload,
\* whatever line follows.
C13_EmptyHandshakeIsFatal ==
  \A c \in Calls :
    Returned(c) /\ Len(call[c].lines) >= 1 /\ IsBlank(call[c].lines[1])
      => IsBridgeError(call[c].ret)

\* C13, amended: when the handshake read returns end of file, every later
\* read returns end of file too and the call returns an error, never a
\* payload; the handshake line itself is never inspected, so after a
\* handshake line of white space the call returns what the second line
\* gives.
C13_EofHandshakeIsFatal ==
  \A c \in Calls :
    Returned(c) /\ Len(call[c].lines) >= 1 /\ call[c].lines[1] = EofLine
      => /\ IsBridgeError(call[c].ret)
         /\ \A i \in 1..Len(call[c].lines) : call[c].lines[i] = EofLine

\* The worker closed its output before answering initialize: the call
\* went through both reads and returned the error for it.
C13_Witness ==
  /\ Exchanged("c1")
  /\ call["c1"].lines = <<EofLine, EofLine>>
  /\ call["c1"].ret \in {EmptyResponse, NoToolResponse}

\* A handshake line that is not empty and does not have id 1.
OtherHandshake(l) == ~IsBlank(l) /\ (l.kind = "json" => ~IdIsOne(l.msg))
\* What the call returns for the second line after a regular handshake.
BySecondLine(c) ==
  BridgeReturn(call[c].impl, Exchange(InitLine, call[c].lines[2]))

\* C14 as stated: after a non-empty handshake line without id 1, whatever
\* it holds, the tool request is sent and the call returns what the second
\* line alone determines.
C14_HandshakeContentIsIgnored ==
  \A c \in Calls :
    Exchanged(c) /\ OtherHandshake(call[c].lines[1])
      => Logged(c, {"W1"}) /\ call[c].ret = BySecondLine(c)

\* C14, amended: after a non-empty handshake line without id 1 the tool
\* request is sent and the call returns what the second line alone
\* determines, with one exception in graph.py: when the second line holds no
\* JSON object, the error is "No valid responses" if the handshake line
\* holds none either and "No tool response" if it holds one.
C14_HandshakeContentAlmostIgnored ==
  \A c \in Calls :
    Exchanged(c) /\ OtherHandshake(call[c].lines[1])
      => /\ Logged(c, {"W1"})
         /\ \/ call[c].ret = BySecondLine(c)
            \/ /\ call[c].impl = "graph"
               /\ Responses(call[c].lines) = << >>
               /\ call[c].ret = NoValidResponses
               /\ BySecondLine(c) \in {NoToolResponse, EmptyResponse}

\* The handshake was answered with text that is no JSON and the call
\* returned the payload of the second line.
C14_Witness ==
  /\ Exchanged("c1")
  /\ call["c1"].lines[1] = TextLine
  /\ call["c1"].lines[2] =
       JsonLine(Response(Num(1), ToolResult(Obj("error" :> Str("Roles are required")))))
  /\ call["c1"].ret = Obj("error" :> Str("Roles are required"))

BothBlank(c) == IsBlank(call[c].lines[1]) /\ IsBlank(call[c].lines[2])
TornDown(c) ==
  /\ ProcOf(c) = "reaped"
  /\ call[c].stdin = "closed"
  /\ Logged(c, {"terminate"}) /\ Logged(c, {"wait"})

\* C15 as stated: when both lines are empty or white space the call
\* returns the empty-response error, after the worker was torn down.
C15_BlankLinesGiveEmptyResponse ==
  \A c \in Calls :
    Exchanged(c) /\ BothBlank(c) => call[c].ret = EmptyResponse /\ TornDown(c)

\* C15, amended: when both lines are empty or white space, graph.py returns
\* the empty-response error and graph_new.py, which has no check for empty
\* output, returns the error "No tool response from MCP server"; both do so
\* after the worker was torn down.
C15_BlankLinesPerImplementation ==
  \A c \in Calls :
    Exchanged(c) /\ BothBlank(c) =>
      /\ TornDown(c)
      /\ call[c].impl = "graph" => call[c].ret = EmptyResponse
      /\ call[c].impl = "graph_new" => call[c].ret = NoToolResponse

\* graph.py read two lines of white space and returned the empty-response
\* error with the worker reaped.
C15_Witness ==
  /\ Exchanged("c1")
  /\ call["c1"].impl = "graph"
  /\ call["c1"].lines = <<BlankLine, BlankLine>>
  /\ call["c1"].ret = EmptyResponse
  /\ TornDown("c1")

\* The parsed lines of the call that have id 1, and the first of them.
IdOneLines(c) ==
  {i \in 1..Len(call[c].lines) :
     call[c].lines[i].kind = "json" /\ IdIsOne(call[c].lines[i].msg)}
ToolResponseOf(c) == call[c].lines[FirstOf(IdOneLines(c))].msg.m
HasToolResponse(c) == Exchanged(c) /\ IdOneLines(c) # {}
\* The error mapping of the handler that catches an exception of the parse.
ParseFailure(c, e) ==
  IF call[c].impl = "graph" THEN OuterHandler(e) ELSE CommunicationError(e)

\* C16 as stated: a response with id 1 that carries an error makes the call
\* return the remote-error mapping built from the error's message, also
\* when the response carries a result.
C16_ErrorGivesItsMessage ==
  \A c \in Calls :
    HasToolResponse(c) /\ "error" \in DOMAIN ToolResponseOf(c) =>
      LET error == ToolResponseOf(c)["error"]
      IN  /\ error.t = "obj"
          /\ "message" \in DOMAIN error.m
          /\ call[c].ret = Err(Fmt("MCP error: ", error.m["message"]))

\* C16, amended: a response with id 1 that carries an error never has its
\* result returned; the call returns the remote-error mapping built from the
\* error's message when the error is an object with a message, built from
\* the text of the whole error object when it has no message, and the
\* error mapping of the exception handler when the error is no object.
C16_ErrorTakesPrecedence ==
  \A c \in Calls :
    HasToolResponse(c) /\ "error" \in DOMAIN ToolResponseOf(c) =>
      LET error == ToolResponseOf(c)["error"]
      IN  /\ IsBridgeError(call[c].ret)
          /\ error.t = "obj" /\ "message" \in DOMAIN error.m =>
               call[c].ret = Err(Fmt("MCP error: ", error.m["message"]))
          /\ error.t = "obj" /\ "message" \notin DOMAIN error.m =>
               call[c].ret = Err(Fmt("MCP error: ", PyRepr(error)))
          /\ error.t # "obj" => call[c].ret = ParseFailure(c, "AttributeError")

\* The response carried an error and a result, and the error was returned.
C16_Witness ==
  /\ HasToolResponse("c1")
  /\ "error" \in DOMAIN ToolResponseOf("c1")
  /\ "result" \in DOMAIN ToolResponseOf("c1")
  /\ call["c1"].ret = Err(Fmt("MCP error: ", Str("boom")))

\* The response with id 1 has no error and this result.
HasResult(c) ==
  /\ HasToolResponse(c)
  /\ "error" \notin DOMAIN ToolResponseOf(c)
  /\ "result" \in DOMAIN ToolResponseOf(c)
ResultOf(c) == ToolResponseOf(c)["result"]
HasContentItem(rd) ==
  /\ rd.t = "obj" /\ "content" \in DOMAIN rd.m
  /\ rd.m["content"].t = "list" /\ rd.m["content"].items # << >>
ReturnedPayload(c) == Returned(c) /\ ~IsBridgeError(call[c].ret)

C19_NoIdOneGivesError ==
  \A c \in Calls :
    Exchanged(c) /\ IdOneLines(c) = {} =>
      /\ call[c].ret \in {EmptyResponse, NoValidResponses, NoToolResponse}
      /\ call[c].raised \in {<< >>, <<Raised("wait", "TimeoutExpired")>>}

\* The handshake was answered, the tool request was not.
C19_Witness ==
  /\ Exchanged("c1")
  /\ call["c1"].lines = <<InitLine, TextLine>>
  /\ call["c1"].ret = NoToolResponse

(***************************************************************************)
(* Properties of the bridge on a stream of lines (specification SpecDemux). *)
(***************************************************************************)
\* The payload of the one well-formed response in the stream.
WantedPayload(output) ==
  LET i == CHOOSE j \in 1..Len(output) : output[j] \in WantedLines
  IN  output[i].msg.m["result"].m["content"].items[1].m["text"].enc

\* C18: for a worker output made of one well-formed response with id 1 and
\* N lines that are blank, do not begin with '{' or do not parse, in any
\* positions and for N from 0 to 5, the call yields that response.
C18_JunkLinesAreDiscarded ==
  demux.impl # "" => demux.ret = WantedPayload(demux.output)

\* The wanted line is one of the two lines the call reads.
WantedAmongFirstTwo(output) ==
  \E i \in 1..Len(output) : i <= 2 /\ output[i] \in WantedLines
\* The call finds the response exactly when it is among the first two lines.
FoundIffAmongFirstTwo ==
  demux.impl # "" =>
    (demux.ret = WantedPayload(demux.output) <=> WantedAmongFirstTwo(demux.output))

\* C32: when the worker prints informational lines before or between its
\* handshake response and its response with id 1, the lines are skipped and
\* the call returns the payload of that response.
C32_LogLinesAreSkipped ==
  demux.impl # "" /\ demux.output \in LoggingStreams =>
    demux.ret = WantedPayload(demux.output)

(***************************************************************************)
(* Properties of two invocations of call_mcp_tool (specification SpecTwo). *)
(***************************************************************************)
\* The exception of step kind that call c met, if any.
RaisedAt(c, steps) ==
  \E i \in 1..Len(call[c].raised) : call[c].raised[i].step \in steps
\* How call c went, for BridgeReturn.
WentLike(c) ==
  IF ~Spawned(c) THEN PopenFailed
  ELSE IF RaisedAt(c, {"write", "read", "stderr"}) THEN PipeRaised(call[c].exc)
  ELSE Exchange(call[c].lines[1], call[c].lines[2])
\* Both calls have returned, and they ran the same implementation.
BothReturned ==
  /\ Returned("c1") /\ Returned("c2")
  /\ call["c1"].impl = call["c2"].impl
\* Every process of the table has exited and has been reaped.
NoResidualProcess == \A p \in 1..Len(procs) : procs[p] = "reaped"

\* C25 as stated: two calls with the same arguments against a worker whose
\* output is a function of its input (what one call read is what the other
\* read, as far as both read, and no output was undecodable) return the
\* same result, and no worker process remains.
C25_SameInputSameResult ==
  /\ BothReturned
  /\ IsPrefix(call["c1"].lines, call["c2"].lines)
       \/ IsPrefix(call["c2"].lines, call["c1"].lines)
  /\ ~RaisedAt("c1", {"read", "stderr"}) /\ ~RaisedAt("c2", {"read", "stderr"})
  => /\ call["c1"].ret = call["c2"].ret
     /\ NoResidualProcess

\* C25, amended: two calls that read the same lines and met the same
\* exception (or none), after both spawned a worker or both failed to,
\* return the same result; and a call that has returned leaves no worker
\* process, so that none remains when both have returned.
C25_SameExchangeSameResult ==
  /\ \A c \in TwoCalls : Returned(c) /\ Spawned(c) => ProcOf(c) = "reaped"
  /\ BothReturned => NoResidualProcess
  /\ /\ BothReturned
     /\ Spawned("c1") = Spawned("c2")
     /\ call["c1"].lines = call["c2"].lines
     /\ call["c1"].exc = call["c2"].exc
     => call["c1"].ret = call["c2"].ret

\* Both calls spawned a worker, read the handshake and the answer, and
\* returned the same payload; both workers are reaped.
C25_Witness ==
  /\ BothReturned
  /\ call["c1"].impl = "graph_new"
  /\ call["c1"].pid # call["c2"].pid
  /\ call["c1"].lines = <<InitLine, AnswerLine(JsonDumps(Null))>>
  /\ call["c2"].lines = call["c1"].lines
  /\ call["c1"].ret = Null /\ call["c2"].ret = Null
  /\ procs = <<"reaped", "reaped">>

\* The step changes the record of call c.
Stepped(c) == call'[c] # call[c]
\* No two calls hold the same worker, and every worker is in the table.
OwnWorkers ==
  /\ \A c, d \in TwoCalls : c # d /\ Spawned(c) /\ Spawned(d) => call[c].pid # call[d].pid
  /\ \A c \in TwoCalls : call[c].pid <= Len(procs)
\* What a call returned is a function of what that call read and met.
OwnResponse ==
  \A c \in TwoCalls : Returned(c) => call[c].ret = BridgeReturn(call[c].impl, WentLike(c))
\* A step of a call leaves the record of the other call alone, and changes
\* no process but the worker of the call that steps.
OwnSteps ==
  \A c \in TwoCalls :
    Stepped(c) =>
      /\ \A d \in TwoCalls \ {c} : call'[d] = call[d]
      /\ \A p \in 1..Len(procs) : procs'[p] # procs[p] => p = call[c].pid
      /\ Len(procs') # Len(procs) =>
           /\ procs' = Append(procs, "running")
           /\ call[c].pid = 0 /\ call'[c].pid = Len(procs')

\* C26: under every interleaving of two invocations, each spawns its own
\* worker, its steps change only its own record and signal only its own
\* worker, and it returns what its own exchange gives.
C26_CallsShareNothing ==
  [](OwnWorkers /\ OwnResponse) /\ [][OwnSteps]_vars

\* The workers differ: the call that spawned second got its answer, the
\* call that spawned first got end of file.
C26_Witness ==
  /\ Returned("c1") /\ Returned("c2")
  /\ call["c1"].pid = 2 /\ call["c2"].pid = 1
  /\ call["c1"].ret = Null
  /\ call["c2"].lines = <<InitLine, EofLine>>
  /\ call["c2"].ret = NoToolResponse

\* How often op is in the log of call c.
TimesLogged(c, op) ==
  Cardinality({i \in 1..Len(call[c].log) : call[c].log[i] = op})
\* One process for every call that spawned and none besides; no request
\* written twice.
SingleAttempt ==
  /\ Len(procs) = Cardinality({c \in TwoCalls : Spawned(c)})
  /\ \A c \in TwoCalls : TimesLogged(c, "W0") <= 1 /\ TimesLogged(c, "W1") <= 1
\* A step of a call that has met an exception spawns nothing and uses no
\* pipe; a call never changes the worker it holds, and the worker a call
\* takes is the one it has just spawned.
NoRetry ==
  \A c \in TwoCalls :
    Stepped(c) =>
      /\ call[c].raised # << >> =>
           /\ Len(procs') = Len(procs)
           /\ PipeOps(c)' = PipeOps(c)
      /\ call[c].pid # 0 => call'[c].pid = call[c].pid /\ Len(procs') = Len(procs)
      /\ call[c].pid = 0 /\ call'[c].pid # 0 =>
           call'[c].pid = Len(procs) + 1 /\ procs' = Append(procs, "running")

\* C27: each call spawns at most one worker and makes one attempt: after a
\* failure it spawns no second process and sends no request again, and it
\* never uses a process that another call spawned.
C27_SingleAttempt ==
  [](SingleAttempt) /\ [][NoRetry]_vars

\* The second call to spawn met a broken pipe on its tool request and
\* returned the communication error with one process to its name.
C27_Witness ==
  /\ Returned("c1") /\ Returned("c2")
  /\ call["c2"].pid = 2
  /\ call["c2"].raised = <<Raised("write", "BrokenPipeError")>>
  /\ call["c2"].log = <<"W0", "R0", "kill", "wait">>
  /\ call["c2"].ret = CommunicationError("BrokenPipeError")
  /\ Len(procs) = 2

(***************************************************************************)
(* Termination of the teardown (specification SpecLive).                   *)
(***************************************************************************)
\* C30: once both response lines have been read (the call is about to
\* close the worker's stdin) the call eventually returns, whatever the
\* worker does: a worker that ignores terminate() is killed after the
\* bounded wait and reaped.
C30_TeardownCompletes ==
  \A c \in Calls : (call[c].pc = "close_stdin") ~> Returned(c)

\* The worker ignored terminate(): the wait timed out, the worker was
\* killed and reaped, and the call returned the payload it had read.
C30_Witness ==
  /\ Returned("c1")
  /\ call["c1"].raised = <<Raised("wait", "TimeoutExpired")>>
  /\ call["c1"].log = <<"W0", "R0", "W1", "R1", "close", "terminate", "kill", "wait">>
  /\ ProcOf("c1") = "reaped"
  /\ call["c1"].ret = Null

(***************************************************************************)
(* The two implementations of call_mcp_tool compared (specification Spec). *)
(***************************************************************************)
OtherImpl(c) == IF call[c].impl = "graph" THEN "graph_new" ELSE "graph"
\* What the other implementation returns for the two lines this call read.
OtherReturn(c) ==
  BridgeReturn(OtherImpl(c), Exchange(call[c].lines[1], call[c].lines[2]))
\* The operations of a call that completed the exchange and tore the
\* worker down, with or without the kill after a wait timeout.
PlainTeardown ==
  {FullExchange \o <<"close", "terminate", "wait">>,
   FullExchange \o <<"close", "terminate", "kill", "wait">>}
\* The same, followed by the kill and wait of the exception handler.
TeardownThenHandler == {ops \o <<"kill", "wait">> : ops \in PlainTeardown}

AsFirstRequest == MockCallTool(mock.name, mock.args, MOCK_ACCOUNTS).text

\* C33: serving query_accounts_by_roles or get_account_detail leaves
\* MOCK_ACCOUNTS unchanged, so that after any sequence of requests served by
\* one worker process a request is answered as it would be as the first.
C33_RequestsLeaveDataUnchanged ==
  mock.served > 0 => mock.data = MOCK_ACCOUNTS /\ mock.text = AsFirstRequest

(***************************************************************************)
(* What the result of call_mcp_tool depends on (specification Spec).       *)
(***************************************************************************)
\* What the parse of the two lines the call read gives.
OfTheLines(c) ==
  BridgeReturn(call[c].impl, Exchange(call[c].lines[1], call[c].lines[2]))

\* The call returned after it had read both lines.
ReadBothLines(c) == Returned(c) /\ Len(call[c].lines) = 2

\* C34 as stated: the mapping a call returns depends only on the two lines
\* read; it is the same for every exit code, every content of the worker's
\* error stream, and whether the worker exited on terminate or was killed.
C34_ResultDependsOnlyOnLines ==
  \A c \in Calls : ReadBothLines(c) => call[c].ret = OfTheLines(c)

\* C34, amended: the mapping depends only on the two lines read, whatever
\* the exit code and whether the worker exited on terminate or was killed,
\* and in graph.py whatever text the error stream held, unless the read of
\* the error stream raises (its content is not text): graph.py then returns
\* the communication error whatever the two lines were.
C34_ResultIgnoresExitAndStderrText ==
  \A c \in Calls :
    /\ ReadBothLines(c) /\ ~RaisedAt(c, {"stderr"}) =>
         /\ call[c].ret = OfTheLines(c)
         /\ call[c].returncode \in ExitCodes \cup {KilledCode}
    /\ ReadBothLines(c) /\ RaisedAt(c, {"stderr"}) =>
         /\ call[c].impl = "graph"
         /\ call[c].ret = CommunicationError("UnicodeDecodeError")

\* graph.py had to kill its worker, which left a traceback on its error
\* stream, and returned the payload of the second line all the same.
C34_Witness ==
  /\ Exchanged("c1") /\ call["c1"].impl = "graph"
  /\ Logged("c1", {"kill"}) /\ call["c1"].returncode = KilledCode
  /\ call["c1"].stderr # ""
  /\ call["c1"].lines[2] \in WantedLines
  /\ call["c1"].ret \in BridgePayloads
  /\ call["c1"].ret = OfTheLines("c1")

(***************************************************************************)
(* The WHERE clause of the built queries as SQL reads it (specification    *)
(* SpecDenodo).                                                            *)
(***************************************************************************)
ClauseEnds == {"ORDER BY r1.account_number", "GROUP BY r1.entitlement_roles"}
\* The code of the WHERE clause: from the WHERE to the next clause.
WhereCode(code) ==
  LET ws == {i \in 1..Len(code) : code[i] = "WHERE"}
      w == FirstOf(ws)
      es == {i \in 1..Len(code) : i > w /\ code[i] \in ClauseEnds}
  IN  IF ws = {} THEN << >>
      ELSE SubSeq(code, w + 1, IF es = {} THEN Len(code) ELSE FirstOf(es) - 1)
\* How many parentheses are open before position i.
Depth(ts, i) ==
  Cardinality({k \in 1..(i - 1) : ts[k] = "("}) - Cardinality({k \in 1..(i - 1) : ts[k] = ")"})
\* The conjuncts of a clause: its parts between the ANDs outside parentheses.
Conjuncts(ts) ==
  LET cuts == {i \in 1..Len(ts) : ts[i] = "AND" /\ Depth(ts, i) = 0}
      starts == {1} \cup {i + 1 : i \in cuts}
      EndOf(a) == LET later == {i \in cuts : i >= a}
                  IN  IF later = {} THEN Len(ts) ELSE FirstOf(later) - 1
  IN  {SubSeq(ts, a, EndOf(a)) : a \in starts}
RoleColumns == {"entitlement_roles", "r1.entitlement_roles"}
\* One parenthesised disjunction of role matches: ( col LIKE literal OR ... )
IsRoleDisjunction(ts) ==
  /\ Len(ts) >= 5 /\ ts[1] = "(" /\ ts[Len(ts)] = ")"
  /\ (Len(ts) - 2) % 4 = 3
  /\ \A k \in 1..(Len(ts) - 2) :
       ts[k + 1] = (CASE k % 4 = 1 -> ts[2]
                      [] k % 4 = 2 -> "LIKE"
                      [] k % 4 = 3 -> "literal"
                      [] OTHER -> "OR")
  /\ ts[2] \in RoleColumns
MentionsRoles(ts) == \E k \in 1..Len(ts) : ts[k] \in RoleColumns \cup {"LIKE", "OR"}

\* C35: in every query a builder makes for a non-empty role list, the role
\* disjunction is one parenthesised conjunct of the WHERE clause: one
\* conjunct is the parenthesised disjunction of the role matches and no
\* other conjunct has a role match or a disjunction in it.
C35_RoleDisjunctionIsOneConjunct ==
  BuiltForRoles =>
    \A i \in 1..Len(denodo.queries) :
      LET conjuncts == Conjuncts(WhereCode(SqlCode(QueryChunks(denodo.queries[i]))))
      IN  /\ Cardinality({c \in conjuncts : IsRoleDisjunction(c)}) = 1
          /\ \A c \in conjuncts : ~IsRoleDisjunction(c) => ~MentionsRoles(c)

(***************************************************************************)
(* Falsy filter values and the order of the clauses in                     *)
(* build_accounts_query (specification SpecDenodo).                        *)
(***************************************************************************)
RecognisedKeys == {"account_number", "account_status", "account_type", "min_balance", "limit"}
\* The filters without the key.
WithoutKey(filters, key) == Obj([k \in (DOMAIN filters.m) \ {key} |-> filters.m[k]])
\* The keys of the request's filters whose value is present and falsy.
FalsyKeys ==
  IF RequestFilters.t # "obj" THEN {}
  ELSE {k \in RecognisedKeys \cap DOMAIN RequestFilters.m : PyNot(RequestFilters.m[k])}
BuiltWithFilters(filters) ==
  BuildAccountsQuery(RequestRoles, filters,
                     Get(denodo.args, "include_balance", Bool(TRUE)),
                     Get(denodo.args, "include_details", Bool(TRUE)))

\* C36: a recognised filter key whose value is present and falsy (a
\* min_balance or limit of 0, an empty string) contributes nothing to the
\* query of build_accounts_query: the query is the one built from the
\* filters with that key removed.
C36_FalsyFilterContributesNothing ==
  ListedForRoles =>
    \A key \in FalsyKeys :
      /\ denodo.queries = <<BuiltWithFilters(WithoutKey(RequestFilters, key))>>
      /\ \A i \in 1..Len(denodo.queries[1]) :
           /\ denodo.queries[1][i].tok = "cond" => denodo.queries[1][i].val # RequestFilters.m[key]
           /\ key = "limit" => denodo.queries[1][i].tok # "LIMIT"

\* A list request with balances whose filters hold an account status, a
\* min_balance of 0 and a limit of 0: the query has the status predicate
\* and neither a balance bound nor a LIMIT.
C36_Witness ==
  /\ ListedForRoles /\ WantsBalance
  /\ FalsyKeys = {"min_balance", "limit"}
  /\ Supplies("account_status")
  /\ Len(denodo.queries) = 1
  /\ HasPiece(denodo.queries[1], Cond("r1.account_status", "=", Str("Active")))
  /\ HasPiece(denodo.queries[1], JoinBalance)
  /\ \A i \in 1..Len(denodo.queries[1]) :
       denodo.queries[1][i].tok = "cond" => denodo.queries[1][i].col # "r3.balance"
  /\ \A i \in 1..Len(denodo.queries[1]) : denodo.queries[1][i].tok # "LIMIT"

\* The pieces that begin a clause, in the order of the claim.
OrderBy == Kw("ORDER BY r1.account_number")
IsClauseStart(p, n) ==
  CASE n = 1 -> p = Kw("SELECT")
    [] n = 2 -> p = FromBase
    [] n = 3 -> p = JoinDetails
    [] n = 4 -> p = JoinBalance
    [] n = 5 -> p = Kw("WHERE")
    [] n = 6 -> p = OrderBy
    [] OTHER -> p.tok = "LIMIT"
ClauseNumbers == 1..7
PositionsOf(q, n) == {i \in 1..Len(q) : IsClauseStart(q[i], n)}

\* C38: the query of build_accounts_query has its clauses in the order
\* SELECT, FROM, details join, balance join, WHERE, ORDER BY account number,
\* LIMIT; the ORDER BY is present for all inputs; the LIMIT is present
\* exactly when the filters supply a limit (a positive number), carries that
\* limit and is then the last clause.  The query is the one the builder
\* makes for the request, which the worker executes when the request has a
\* role.
C38_ClauseOrder ==
  denodo.name = "query_accounts_by_roles" =>
    /\ ListedForRoles => denodo.queries = <<BuiltWithFilters(RequestFilters)>>
    /\ LET q == BuiltWithFilters(RequestFilters)
       IN  /\ \A n \in ClauseNumbers : Cardinality(PositionsOf(q, n)) <= 1
           /\ \A n, m \in ClauseNumbers :
                n < m => \A i \in PositionsOf(q, n), j \in PositionsOf(q, m) : i < j
           /\ PositionsOf(q, 1) = {1}
           /\ PositionsOf(q, 2) # {} /\ PositionsOf(q, 6) # {}
           /\ PositionsOf(q, 7) # {} <=> Supplies("limit")
           /\ Supplies("limit") => q[Len(q)] = LimitTok(RequestFilters.m["limit"])
           /\ ~Supplies("limit") => q[Len(q)] = OrderBy

\* A list request with details, balances, a status filter and a limit of 1:
\* all seven clauses are in the query.
C38_Witness ==
  /\ ListedForRoles /\ WantsDetails /\ WantsBalance
  /\ Supplies("limit") /\ Supplies("account_status")
  /\ Len(denodo.queries) = 1
  /\ \A n \in ClauseNumbers : PositionsOf(denodo.queries[1], n) # {}
  /\ denodo.queries[1][Len(denodo.queries[1])] = LimitTok(Num(1))

(***************************************************************************)
(* The envelope of get_account_detail in front of a data worker            *)
(* (specification SpecFacade).                                             *)
(***************************************************************************)
\* get_account_detail was run against its data worker (the real one behind
\* graph.py, the mock behind graph_new.py), or the bridge to it failed.
DetailAgainstWorker ==
  /\ FacadeReturned /\ facade.tool = "get_account_detail"
  /\ facade.env.kind \in {"worker", "popen_fails", "comm"}
Says(e, key) == key \in DOMAIN e /\ e[key] = Bool(TRUE)

\* C37: for get_account_detail run against either data worker, an envelope
\* with success true has access_granted true and a non-empty account, an
\* envelope with access_denied true has no success, and no envelope reports
\* both access granted and access denied.
C37_SuccessMeansGranted ==
  DetailAgainstWorker =>
    LET e == EnvelopeOf(facade.out)
    IN  /\ Says(e, "success") =>
             /\ Says(e, "access_granted")
             /\ "account" \in DOMAIN e /\ e["account"].t = "obj"
             /\ DOMAIN e["account"].m # {}
        /\ Says(e, "access_denied") => "success" \notin DOMAIN e
        /\ ~(Says(e, "access_granted") /\ Says(e, "access_denied"))
        /\ Says(e, "success") \/ Says(e, "access_denied")

\* The mock worker was asked for an account the roles give no access to:
\* its answer has an error and access_granted false, and the envelope
\* reports access denied and no success.
C37_Witness ==
  /\ DetailAgainstWorker /\ AnsweredByMock
  /\ facade.args = Obj("account_number" :> Str("ACC-10001") @@ "roles" :> List(<<Str("Manager")>>))
  /\ facade.result.m["access_granted"] = Bool(FALSE)
  /\ Says(EnvelopeOf(facade.out), "access_denied")
  /\ "success" \notin DOMAIN EnvelopeOf(facade.out)

(***************************************************************************)
(* The order of the nodes in a run of the agent graph (specification       *)
(* SpecAgent).                                                             *)
(***************************************************************************)
LastMessage(a) == a.messages[Len(a.messages)]
CarriesToolCalls(a) ==
  a.messages # << >> /\ LastMessage(a).type = "ai" /\ LastMessage(a).tool_calls # << >>
\* The nodes that have run are agent and tools in turn, agent first.
RanInTurn ==
  \A i \in 1..Len(agent.ran) :
    agent.ran[i] = (IF i % 2 = 1 THEN "agent" ELSE "tools")
\* One step of the run.
NodeOrder ==
  /\ agent.node = "START" => agent'.node = "agent" /\ agent'.ran = << >>
  /\ agent.node = "tools" =>
       /\ agent'.node = "agent"
       /\ agent'.ran = Append(agent.ran, "tools")
  /\ agent'.node = "tools" =>
       /\ agent.node = "agent" /\ agent'.ran = Append(agent.ran, "agent")
       /\ CarriesToolCalls(agent')
  /\ agent'.node = "END" =>
       /\ agent.node = "agent" /\ agent'.ran = Append(agent.ran, "agent")
       /\ LastMessage(agent').type = "ai" /\ ~CarriesToolCalls(agent')
  /\ agent.node \in {"END", "raised"} => agent' = agent

\* C39: the run starts at the agent node; every execution of the tools node
\* is followed at once by the agent node; the tools node runs only when the
\* last message of the agent carries tool calls; the run ends only from the
\* agent node, when its last message carries no tool call.
C39_AgentToolsLoop ==
  /\ [](RanInTurn /\ (agent.node = "tools" => CarriesToolCalls(agent)))
  /\ [][NodeOrder]_vars

\* A run that called tools once and ended after the second model call.
C39_Witness ==
  /\ agent.node = "END"
  /\ agent.ran = <<"agent", "tools", "agent">>
  /\ agent.messages = <<HumanMessage, AIMessage(2), ToolMessage(1), ToolMessage(2), AIMessage(0)>>

(***************************************************************************)
(* The answers of the data worker's call_tool to unknown tools and failed  *)
(* queries (specification SpecDenodo).                                     *)
(***************************************************************************)
KnownTools ==
  {"query_accounts_by_roles", "get_account_summary", "get_account_detail",
   "execute_custom_query"}
ResultKeys == {"accounts", "summary", "account", "elements", "total_count"}
\* The request named no tool of the worker, or its query was handed to
\* execute_denodo_query and that raised.
UnknownOrFailed ==
  /\ denodo.name # ""
  /\ \/ denodo.name \notin KnownTools
     \/ denodo.queries # << >> /\ denodo.db.k = "raise"
\* The text is a JSON object with an error key and no query result.
IsErrorPayload(text) ==
  LET p == JsonLoads(text)
  IN  /\ p.k = "ret" /\ p.v.t = "obj"
      /\ "error" \in DOMAIN p.v.m
      /\ ResultKeys \cap DOMAIN p.v.m = {}

\* C40: call_tool of the data worker answers every request with one text
\* content item and raises nothing; for an unknown tool name and for a query
\* whose execution failed the text is a payload with an error key and no
\* query result.
C40_ErrorsAreErrorPayloads ==
  /\ denodo.name # "" => denodo.text.t = "str"
  /\ UnknownOrFailed => IsErrorPayload(denodo.text)
=============================================================================
